---- MODULE Spec2Model ----
(***************************************************************************)
(* A model of the log field store of log-analyzer (src/Log.py): the keyed, *)
(* type-tagged, timestamp-ordered columns of class Log and class LogField, *)
(* the generated-parent registry, the tracked timestamp range and the      *)
(* timestamp-set cache of get_timestamps.                                  *)
(*                                                                         *)
(* Conventions.  A Python str used as a key is a sequence of one-character *)
(* strings, so that len() and startswith() are computed, not assumed.      *)
(* A Python float timestamp is an integer of the model: the store only     *)
(* compares timestamps (<, <=, ==, min, max).  A Python value is a record  *)
(* tagged with its runtime type ([py |-> "float", v |-> 1]).  An Optional  *)
(* is the empty sequence (None) or a one-element / two-element sequence.   *)
(***************************************************************************)
EXTENDS Integers, Sequences, FiniteSets, TLC

VARIABLES
    fields,               \* Log.fields: key -> LogField
    generated_parents,    \* Log.generated_parents
    timestamp_range,      \* Log.timestamp_range: None or <<start, end>>
    timestamp_set_cache,  \* Log.timestamp_set_cache: uuid -> cache entry
    struct_decoder,       \* Log.struct_decoder: the StructDecoder object
    queued_structs,       \* Log.queued_structs
    queued_struct_arrays, \* Log.queued_struct_arrays
    buf,                  \* DataLogIterator.buf
    pos,                  \* DataLogIterator.pos
    yielded,              \* history: the records the iterator returned, with their offsets
    stopped,              \* history: the last __next__ raised StopIteration
    lastOp,               \* history: the call that produced this state
    history,              \* history: what has happened to this Log so far
    mandatory_entries,    \* process_log_file: parameter
    target_entry_names,   \* process_log_file: parameter
    filter_enabled,       \* process_log_file: parameter
    filter_fms_attached,  \* process_log_file: parameter
    robot_mode,           \* process_log_file: parameter
    entries,              \* process_log_file: entry id -> StartRecordData
    driver_station_enabled,       \* process_log_file: None or <<value>>
    driver_station_autonomous,    \* process_log_file: None or <<value>>
    driver_station_fms_attached,  \* process_log_file: None or <<value>>
    exited,               \* None, or <<the exception that ended process_log_file>>
    lastRecord,           \* history: None, or <<the record of the last loop pass>>
    processed,            \* history: the records of the loop passes, where a specification keeps them
    lastDecode,           \* history: None, or <<the last call of decode with its result>>
    lastResult            \* history: None, or <<the last reading call with what it returned>>

logVars == <<fields, generated_parents, timestamp_range, timestamp_set_cache, struct_decoder,
             queued_structs, queued_struct_arrays, lastOp, history>>

readerVars == <<buf, pos, yielded, stopped>>

paramVars == <<mandatory_entries, target_entry_names, filter_enabled, filter_fms_attached,
               robot_mode>>

runVars == <<paramVars, entries, driver_station_enabled, driver_station_autonomous,
             driver_station_fms_attached, exited, lastRecord, processed>>

vars == <<logVars, readerVars, runVars, lastDecode, lastResult>>

(***************************************************************************)
(* Bounds of the model.                                                    *)
(***************************************************************************)
MaxTime == 2
MaxSamples == 2
MaxKeyLen == 3
MaxParents == 2
MaxQueued == 1
MaxBody == 9

Times == 0..MaxTime

(***************************************************************************)
(* Python values and LoggableType.                                         *)
(***************************************************************************)
None == <<>>

PyNone == [py |-> "NoneType"]
PyBool(b) == [py |-> "bool", v |-> b]
PyFloat(n) == [py |-> "float", v |-> n]
PyStr(s) == [py |-> "str", v |-> s]
PyBytes(bs) == [py |-> "bytes", v |-> bs]
AttributeError == [raised |-> "AttributeError"]

RAW == "raw"
BOOLEAN_TYPE == "boolean"
NUMBER == "number"
STRING_TYPE == "string"
BOOLEAN_ARRAY == "boolean_array"
NUMBER_ARRAY == "number_array"
STRING_ARRAY == "string_array"
EMPTY == "empty"

LoggableType == {RAW, BOOLEAN_TYPE, NUMBER, STRING_TYPE, BOOLEAN_ARRAY, NUMBER_ARRAY, STRING_ARRAY, EMPTY}

(***************************************************************************)
(* Keys: Python strings as sequences of characters.                        *)
(***************************************************************************)
startswith(s, prefix) ==
    /\ Len(prefix) <= Len(s)
    /\ SubSeq(s, 1, Len(prefix)) = prefix

Min(a, b) == IF a < b THEN a ELSE b
Max(a, b) == IF a > b THEN a ELSE b

KA == <<"a">>
KB == <<"b">>
Keys == {KA, KB}

(***************************************************************************)
(* class LogField                                                          *)
(***************************************************************************)
LogValueSet(timestamps, values) == [timestamps |-> timestamps, values |-> values]

LogField(log_type) ==
    [type |-> log_type,
     data |-> LogValueSet(<<>>, <<>>),
     structured_type |-> None,
     type_warning |-> FALSE]

InsertAt(seq, index, x) ==
    SubSeq(seq, 1, index - 1) \o <<x>> \o SubSeq(seq, index, Len(seq))

\* Mutant of insert_index: the sample goes before the stored samples of its
\* own timestamp.
insert_index_before_equal(timestamps, timestamp) ==
    IF \E i \in 1..Len(timestamps) : timestamps[i] >= timestamp
    THEN CHOOSE i \in 1..Len(timestamps) :
            /\ timestamps[i] >= timestamp
            /\ \A j \in 1..(i - 1) : ~(timestamps[j] >= timestamp)
    ELSE Len(timestamps) + 1

\* Mutant of insert_index: every sample is appended.
insert_index_append(timestamps, timestamp) == Len(timestamps) + 1

\* The insertion point of _insert_value: the first position whose timestamp
\* is greater than the new one, else the end (positions are 1-based here).
insert_index(timestamps, timestamp) ==
    IF \E i \in 1..Len(timestamps) : timestamps[i] > timestamp
    THEN CHOOSE i \in 1..Len(timestamps) :
            /\ timestamps[i] > timestamp
            /\ \A j \in 1..(i - 1) : ~(timestamps[j] > timestamp)
    ELSE Len(timestamps) + 1

_insert_value(field, timestamp, value) ==
    LET at == insert_index(field.data.timestamps, timestamp)
    IN  [field EXCEPT !.data = LogValueSet(InsertAt(field.data.timestamps, at, timestamp),
                                           InsertAt(field.data.values, at, value))]

\* Mutant of LogField_put: a conflicting write warns and is stored all the same.
LogField_put_stored(field, put_type, timestamp, value) ==
    IF field.type # put_type
    THEN _insert_value([field EXCEPT !.type_warning = TRUE], timestamp, value)
    ELSE _insert_value(field, timestamp, value)

\* LogField.put_raw .. put_string_array: seven methods of one shape, the
\* type each compares with passed as put_type.
LogField_put(field, put_type, timestamp, value) ==
    IF field.type # put_type
    THEN [field EXCEPT !.type_warning = TRUE]
    ELSE _insert_value(field, timestamp, value)

\* The while loop of LogField.clear_before_time from position i (0-based as
\* in the source): the position at which the loop slices and breaks, or
\* the length when the loop ends without slicing (an empty list).
RECURSIVE clear_loop(_, _, _)
clear_loop(timestamps, clear_timestamp, i) ==
    IF ~(i < Len(timestamps))
    THEN i
    ELSE IF /\ Len(timestamps) >= 2
            /\ i + 1 < Len(timestamps)
            /\ timestamps[i + 2] < clear_timestamp
         THEN clear_loop(timestamps, clear_timestamp, i + 1)
         ELSE i

\* Mutant of LogField_clear_before_time: the first retained timestamp is
\* not moved to clear_timestamp.
LogField_clear_unclamped(field, clear_timestamp) ==
    LET i == clear_loop(field.data.timestamps, clear_timestamp, 0)
    IN  [field EXCEPT !.data =
            LogValueSet(SubSeq(field.data.timestamps, i + 1, Len(field.data.timestamps)),
                        SubSeq(field.data.values, i + 1, Len(field.data.values)))]

LogField_clear_before_time(field, clear_timestamp) ==
    LET i == clear_loop(field.data.timestamps, clear_timestamp, 0)
        ts == SubSeq(field.data.timestamps, i + 1, Len(field.data.timestamps))
        vs == SubSeq(field.data.values, i + 1, Len(field.data.values))
        ts2 == IF Len(ts) > 0 /\ ts[1] < clear_timestamp
               THEN [ts EXCEPT ![1] = clear_timestamp]
               ELSE ts
    IN  [field EXCEPT !.data = LogValueSet(ts2, vs)]

\* The positions LogField.get_range keeps, in stored order.
RECURSIVE range_filter(_, _, _, _)
range_filter(data, start, end, i) ==
    IF i > Len(data.timestamps)
    THEN LogValueSet(<<>>, <<>>)
    ELSE LET rest == range_filter(data, start, end, i + 1)
         IN  IF start <= data.timestamps[i] /\ data.timestamps[i] <= end
             THEN LogValueSet(<<data.timestamps[i]>> \o rest.timestamps,
                              <<data.values[i]>> \o rest.values)
             ELSE rest

LogField_get_range(field, start, end) == range_filter(field.data, start, end, 1)

(***************************************************************************)
(* src/StructDecoder.py.  A schema text is the sequence of its             *)
(* ';'-separated declarations, each already split into its words: the type *)
(* word, the field name, the ':' width or '[' length that follows the name *)
(* and the enum map in front of it.  A type name is a string; a field name *)
(* is a sequence of characters, as it becomes part of a key.  bytes are    *)
(* sequences of integers 0..255.                                           *)
(***************************************************************************)
PyInt(n) == [py |-> "int", v |-> n]
PyList(items) == [py |-> "list", v |-> items]
\* A dict is the sequence of its <<key, value>> items in insertion order.
PyDict(items) == [py |-> "dict", v |-> items]
Raised(exception) == [raised |-> exception]

\* d[key] = value on a dict: an existing key keeps its place.
DictSet(items, key, value) ==
    IF \E i \in 1..Len(items) : items[i][1] = key
    THEN [i \in 1..Len(items) |-> IF items[i][1] = key THEN <<key, value>> ELSE items[i]]
    ELSE Append(items, <<key, value>>)

DictHas(items, key) == \E i \in 1..Len(items) : items[i][1] = key

DictGet(items, key) == items[CHOOSE i \in 1..Len(items) : items[i][1] = key][2]

VALID_TYPE_STRINGS ==
    {"bool", "char", "int8", "int16", "int32", "int64", "uint8", "uint16", "uint32",
     "uint64", "float", "float32", "double", "float64"}

BITFIELD_VALID_TYPES ==
    {"bool", "int8", "int16", "int32", "int64", "uint8", "uint16", "uint32", "uint64"}

VALUE_TYPE_MAX_BITS(value_type) ==
    CASE value_type \in {"bool", "char", "int8", "uint8"} -> 8
      [] value_type \in {"int16", "uint16"} -> 16
      [] value_type \in {"int32", "uint32", "float", "float32"} -> 32
      [] value_type \in {"int64", "uint64", "double", "float64"} -> 64

\* One declaration of a schema text.
Declaration(type_, name, bitfield_width, array_length, enum) ==
    [type |-> type_, name |-> name, bitfield_width |-> bitfield_width,
     array_length |-> array_length, enum |-> enum]

ValueSchema(name, type_, enum, bitfield_width, array_length, bit_range) ==
    [name |-> name, type |-> type_, enum |-> enum, bitfield_width |-> bitfield_width,
     array_length |-> array_length, bit_range |-> bit_range]

Schema(length, value_schemas) == [length |-> length, value_schemas |-> value_schemas]

StructDecoder == [schema_strings |-> <<>>, schemas |-> <<>>]

\* The bitfield check without the test of the type: only a bool of a width
\* other than 1 is skipped.
invalid_bitfield_bool_only(declaration) ==
    /\ declaration.bitfield_width # None
    /\ declaration.type = "bool"
    /\ declaration.bitfield_width[1] # 1

\* The bitfield check of _compile_schema: the declarations it skips.
invalid_bitfield(declaration) ==
    /\ declaration.bitfield_width # None
    /\ \/ declaration.type \notin BITFIELD_VALID_TYPES
       \/ declaration.type = "bool" /\ declaration.bitfield_width[1] # 1

\* The first loop of _compile_schema: ok is FALSE when a declaration names
\* a type that is neither a primitive nor a compiled schema.
RECURSIVE parse_declarations(_, _)
parse_declarations(schemas, declarations) ==
    IF declarations = <<>>
    THEN [ok |-> TRUE, value_schemas |-> <<>>]
    ELSE LET declaration == Head(declarations)
         IN  IF declaration.type \notin VALID_TYPE_STRINGS /\ declaration.type \notin DOMAIN schemas
             THEN [ok |-> FALSE, value_schemas |-> <<>>]
             ELSE LET rest == parse_declarations(schemas, Tail(declarations))
                  IN  IF ~rest.ok \/ invalid_bitfield(declaration)
                      THEN rest
                      ELSE [ok |-> TRUE,
                            value_schemas |->
                                <<ValueSchema(declaration.name, declaration.type,
                                              declaration.enum, declaration.bitfield_width,
                                              declaration.array_length, <<0, 0>>)>>
                                \o rest.value_schemas]

\* The leftover bits of the current unit are not skipped.
flush_nothing(st) == st.bit_position

\* Closing the current bitfield unit: the bit position moves to its end.
flush_bitfield(st) ==
    IF st.bitfield_position # None /\ st.bitfield_length # None
    THEN st.bit_position + (st.bitfield_length[1] - st.bitfield_position[1])
    ELSE st.bit_position

\* One iteration of the second loop of _compile_schema.
layout_step(schemas, st, value_schema) ==
    IF value_schema.type \notin VALID_TYPE_STRINGS
    THEN LET bit_position == flush_bitfield(st)
             length == IF value_schema.array_length # None
                       THEN schemas[value_schema.type].length * value_schema.array_length[1]
                       ELSE schemas[value_schema.type].length
         IN  [st |-> [bit_position |-> bit_position + length,
                      bitfield_position |-> None, bitfield_length |-> None],
              value_schema |-> [value_schema EXCEPT
                                   !.bit_range = <<bit_position, bit_position + length>>]]
    ELSE IF value_schema.bitfield_width = None
    THEN LET bit_position == flush_bitfield(st)
             bit_length == IF value_schema.array_length # None
                           THEN VALUE_TYPE_MAX_BITS(value_schema.type) * value_schema.array_length[1]
                           ELSE VALUE_TYPE_MAX_BITS(value_schema.type)
         IN  [st |-> [bit_position |-> bit_position + bit_length,
                      bitfield_position |-> None, bitfield_length |-> None],
              value_schema |-> [value_schema EXCEPT
                                   !.bit_range = <<bit_position, bit_position + bit_length>>]]
    ELSE LET type_length == VALUE_TYPE_MAX_BITS(value_schema.type)
             value_bit_length == Min(value_schema.bitfield_width[1], type_length)
             new_unit ==
                 \/ st.bitfield_position = None
                 \/ st.bitfield_length = None
                 \/ value_schema.type # "bool" /\ st.bitfield_length[1] # type_length
                 \/ st.bitfield_position[1] + value_bit_length > st.bitfield_length[1]
             bit_position == IF new_unit THEN flush_bitfield(st) ELSE st.bit_position
             bitfield_position == IF new_unit THEN 0 ELSE st.bitfield_position[1]
             bitfield_length == IF new_unit THEN type_length ELSE st.bitfield_length[1]
         IN  [st |-> [bit_position |-> bit_position + value_bit_length,
                      bitfield_position |-> <<bitfield_position + value_bit_length>>,
                      bitfield_length |-> <<bitfield_length>>],
              value_schema |-> [value_schema EXCEPT
                                   !.bit_range = <<bit_position, bit_position + value_bit_length>>]]

\* The second loop of _compile_schema and the flush that follows it.
RECURSIVE find_bit_positions(_, _, _, _)
find_bit_positions(schemas, value_schemas, st, done) ==
    IF value_schemas = <<>>
    THEN Schema(flush_bitfield(st), done)
    ELSE LET step == layout_step(schemas, st, Head(value_schemas))
         IN  find_bit_positions(schemas, Tail(value_schemas), step.st,
                                Append(done, step.value_schema))

_compile_schema(decoder, name, schema) ==
    LET parsed == parse_declarations(decoder.schemas, schema)
    IN  IF ~parsed.ok
        THEN [success |-> FALSE, decoder |-> decoder]
        ELSE [success |-> TRUE,
              decoder |-> [decoder EXCEPT !.schemas =
                  [n \in DOMAIN decoder.schemas \cup {name} |->
                      IF n = name
                      THEN find_bit_positions(decoder.schemas, parsed.value_schemas,
                               [bit_position |-> 0, bitfield_position |-> None,
                                bitfield_length |-> None], <<>>)
                      ELSE decoder.schemas[n]]]]

\* One pass of the for loop of add_schema over schema_strings from entry i.
RECURSIVE compile_pass(_, _, _)
compile_pass(decoder, i, compile_success) ==
    IF i > Len(decoder.schema_strings)
    THEN [decoder |-> decoder, compile_success |-> compile_success]
    ELSE LET entry == decoder.schema_strings[i]
         IN  IF entry.name \notin DOMAIN decoder.schemas
             THEN LET compiled == _compile_schema(decoder, entry.name, entry.schema)
                  IN  compile_pass(compiled.decoder, i + 1,
                                   compile_success \/ compiled.success)
             ELSE compile_pass(decoder, i + 1, compile_success)

\* add_schema with one pass in place of the loop to the fixed point.
compile_one_pass(decoder) == compile_pass(decoder, 1, FALSE).decoder

\* The while loop of add_schema.
RECURSIVE compile_missing(_)
compile_missing(decoder) ==
    LET pass == compile_pass(decoder, 1, FALSE)
    IN  IF ~pass.compile_success THEN pass.decoder ELSE compile_missing(pass.decoder)

add_schema(decoder, name, schema) ==
    IF \E i \in 1..Len(decoder.schema_strings) : decoder.schema_strings[i].name = name
    THEN decoder
    ELSE compile_missing([decoder EXCEPT !.schema_strings =
                             Append(decoder.schema_strings, [name |-> name, schema |-> schema])])

\* seq[a:b] of Python for 0 <= a, 0 <= b.
PySlice(seq, a, b) == SubSeq(seq, a + 1, Min(b, Len(seq)))

Pow2(n) == 2 ^ n

_to_bool_array(values) ==
    [i \in 1..(8 * Len(values)) |->
        (values[((i - 1) \div 8) + 1] \div Pow2((i - 1) % 8)) % 2 = 1]

RECURSIVE bits_value(_, _)
bits_value(bits, i) ==
    IF i > Len(bits) \/ i > 8 THEN 0
    ELSE (IF bits[i] THEN 1 ELSE 0) + 2 * bits_value(bits, i + 1)

_to_bytes_array(values) ==
    [b \in 1..((Len(values) + 7) \div 8) |->
        bits_value(SubSeq(values, 8 * (b - 1) + 1, Min(8 * b, Len(values))), 1)]

_slice_bits(input_bytes, bit_range) ==
    IF bit_range[1] % 8 = 0 /\ bit_range[2] % 8 = 0
    THEN <<PySlice(input_bytes, bit_range[1] \div 8, bit_range[2] \div 8),
           bit_range[2] - bit_range[1]>>
    ELSE <<_to_bytes_array(PySlice(_to_bool_array(input_bytes), bit_range[1], bit_range[2])),
           bit_range[2] - bit_range[1]>>

\* The little-endian unsigned integer of a byte string.
RECURSIVE unsigned_le(_)
unsigned_le(bs) ==
    IF bs = <<>> THEN 0 ELSE Head(bs) + 256 * unsigned_le(Tail(bs))

Zeros(n) == [i \in 1..n |-> 0]

\* The little-endian two's-complement integer of a non-empty byte string.
RECURSIVE signed_le(_)
signed_le(bs) ==
    IF Len(bs) = 1
    THEN (IF bs[1] >= 128 THEN bs[1] - 256 ELSE bs[1])
    ELSE Head(bs) + 256 * signed_le(Tail(bs))

\* struct.unpack of a signed or unsigned little-endian integer of n bytes.
unpack_integer(bs, n, signed) ==
    IF signed THEN signed_le(PySlice(bs, 0, n)) ELSE unsigned_le(PySlice(bs, 0, n))

\* bytes.decode('utf-8', errors='ignore') of the bytes of one char: a byte
\* below 128 is its character, any other lone byte is dropped.
RECURSIVE decode_utf8(_)
decode_utf8(bs) ==
    IF bs = <<>> THEN <<>>
    ELSE IF Head(bs) < 128 THEN <<Head(bs)>> \o decode_utf8(Tail(bs))
         ELSE decode_utf8(Tail(bs))

\* `output in enum_data` and enum_data[output]: a bool is the key 1 or 0.
enum_key(output) ==
    IF output.py = "bool" THEN (IF output.v THEN <<1>> ELSE <<0>>)
    ELSE IF output.py = "int" THEN <<output.v>>
    ELSE None

_decode_value(value, value_type, enum_data) ==
    LET max_bits == VALUE_TYPE_MAX_BITS(value_type)
        padded_value == value \o Zeros(Max(0, (max_bits \div 8) - Len(value)))
        output ==
            CASE value_type = "bool" -> PyBool(padded_value[1] > 0)
              [] value_type = "char" -> PyStr(decode_utf8(value))
              [] value_type \in {"int8", "int16", "int32", "int64"} ->
                    PyInt(unpack_integer(padded_value, max_bits \div 8, TRUE))
              [] value_type \in {"uint8", "uint16", "uint32", "uint64"} ->
                    PyInt(unpack_integer(padded_value, max_bits \div 8, FALSE))
              [] value_type \in {"float", "float32", "double", "float64"} ->
                    PyFloat([ieee754 |-> PySlice(padded_value, 0, max_bits \div 8)])
    IN  IF /\ enum_data # None
           /\ enum_key(output) # None
           /\ DictHas(enum_data[1], enum_key(output)[1])
        THEN PyStr(DictGet(enum_data[1], enum_key(output)[1]))
        ELSE output

IsRaised(result) == "raised" \in DOMAIN result

\* str(i) of a natural number, as a sequence of characters.
RECURSIVE str(_)
str(i) ==
    LET digit == <<"0", "1", "2", "3", "4", "5", "6", "7", "8", "9">>[(i % 10) + 1]
    IN  IF i < 10 THEN <<digit>> ELSE str(i \div 10) \o <<digit>>

\* "".join of decoded chars.
RECURSIVE join(_)
join(strings) ==
    IF strings = <<>> THEN <<>> ELSE Head(strings).v \o join(Tail(strings))

\* d[f"{prefix}/{key}"] = value for every item of source, in its order.
RECURSIVE DictUpdatePrefixed(_, _, _)
DictUpdatePrefixed(items, prefix, source) ==
    IF source = <<>> THEN items
    ELSE DictUpdatePrefixed(DictSet(items, prefix \o <<"/">> \o Head(source)[1], Head(source)[2]),
                            prefix, Tail(source))

\* The array branch of decode for a primitive type, array_length # 0.
decode_primitive_array(value_array, value_bit_length, value_schema) ==
    LET item_length == (value_schema.bit_range[2] - value_schema.bit_range[1])
                           \div value_schema.array_length[1]
        count == (value_bit_length + item_length - 1) \div item_length
        decoded_values ==
            [k \in 1..count |->
                _decode_value(_slice_bits(value_array,
                                          <<(k - 1) * item_length, k * item_length>>)[1],
                              value_schema.type, value_schema.enum)]
    IN  IF value_schema.type = "char"
        THEN PyStr(join(decoded_values))
        ELSE PyList(decoded_values)

RECURSIVE decode(_, _, _)
RECURSIVE decode_array(_, _, _, _)
RECURSIVE decode_value_schemas(_, _, _, _)
RECURSIVE decode_array_items(_, _, _, _, _, _)

\* The for loop of decode over the value schemas that remain; out holds
\* output_data and output_schema_types.
decode_value_schemas(decoder, value_schemas, value, out) ==
    IF value_schemas = <<>>
    THEN [data |-> PyDict(out.data), schema_types |-> out.schema_types]
    ELSE LET value_schema == Head(value_schemas)
             sliced == _slice_bits(value, value_schema.bit_range)
             value_array == sliced[1]
             value_bit_length == sliced[2]
         IN  IF value_schema.type \in VALID_TYPE_STRINGS
             THEN IF value_schema.array_length = None
                  THEN decode_value_schemas(decoder, Tail(value_schemas), value,
                           [out EXCEPT !.data =
                               DictSet(out.data, value_schema.name,
                                       _decode_value(value_array, value_schema.type,
                                                     value_schema.enum))])
                  ELSE IF value_schema.array_length[1] = 0
                  THEN Raised("ZeroDivisionError")
                  ELSE decode_value_schemas(decoder, Tail(value_schemas), value,
                           [out EXCEPT !.data =
                               DictSet(out.data, value_schema.name,
                                       decode_primitive_array(value_array, value_bit_length,
                                                              value_schema))])
             ELSE LET is_array == value_schema.array_length # None
                      child == IF is_array
                               THEN decode_array(decoder, value_schema.type, value_array,
                                                 value_schema.array_length)
                               ELSE decode(decoder, value_schema.type, value_array)
                  IN  IF IsRaised(child)
                      THEN child
                      ELSE decode_value_schemas(decoder, Tail(value_schemas), value,
                               [data |-> DictSet(out.data, value_schema.name, child.data),
                                schema_types |->
                                    DictUpdatePrefixed(
                                        DictSet(out.schema_types, value_schema.name,
                                                value_schema.type
                                                    \o (IF is_array THEN "[]" ELSE "")),
                                        value_schema.name, child.schema_types)])

decode(decoder, name, value) ==
    IF name \notin DOMAIN decoder.schemas
    THEN Raised("ValueError")
    ELSE decode_value_schemas(decoder, decoder.schemas[name].value_schemas, value,
                              [data |-> <<>>, schema_types |-> <<>>])

\* The for loop of decode_array from item i.
decode_array_items(decoder, name, value, schema_length, length, i) ==
    IF i >= length
    THEN [data |-> <<>>, schema_types |-> <<>>]
    ELSE LET decoded_data == decode(decoder, name,
                                    PySlice(value, i * schema_length, (i + 1) * schema_length))
             rest == decode_array_items(decoder, name, value, schema_length, length, i + 1)
         IN  IF IsRaised(decoded_data) THEN decoded_data
             ELSE IF IsRaised(rest) THEN rest
             ELSE [data |-> <<decoded_data.data>> \o rest.data,
                   schema_types |->
                       DictSet(DictUpdatePrefixed(<<>>, str(i), decoded_data.schema_types),
                               str(i), name) \o rest.schema_types]

decode_array(decoder, name, value, array_length) ==
    IF name \notin DOMAIN decoder.schemas
    THEN Raised("ValueError")
    ELSE LET schema_length == decoder.schemas[name].length \div 8
         IN  IF array_length = None /\ schema_length = 0
             THEN Raised("ZeroDivisionError")
             ELSE LET length == IF array_length = None
                                THEN Len(value) \div schema_length
                                ELSE array_length[1]
                      items == decode_array_items(decoder, name, value, schema_length, length, 0)
                  IN  IF IsRaised(items) THEN items
                      ELSE [data |-> PyList(items.data), schema_types |-> items.schema_types]

(***************************************************************************)
(* class Log.  Its methods are operators from a log value (the record of   *)
(* the object's attributes) to the log value after the call; raised is the *)
(* exception the call ended with, None when it returned.                   *)
(***************************************************************************)
Self == [fields |-> fields,
         generated_parents |-> generated_parents,
         timestamp_range |-> timestamp_range,
         timestamp_set_cache |-> timestamp_set_cache,
         struct_decoder |-> struct_decoder,
         queued_structs |-> queued_structs,
         queued_struct_arrays |-> queued_struct_arrays,
         raised |-> None]

create_blank_field(log, key, log_type) ==
    IF key \in DOMAIN log.fields
    THEN log
    ELSE [log EXCEPT !.fields = [k \in DOMAIN log.fields \cup {key} |->
                                    IF k = key THEN LogField(log_type) ELSE log.fields[k]]]

\* Mutant of update_range_with_timestamp: only the end of the range follows.
update_range_end_only(log, timestamp) ==
    IF log.timestamp_range = None
    THEN [log EXCEPT !.timestamp_range = <<timestamp, timestamp>>]
    ELSE [log EXCEPT !.timestamp_range = <<log.timestamp_range[1],
                                           Max(log.timestamp_range[2], timestamp)>>]

update_range_with_timestamp(log, timestamp) ==
    IF log.timestamp_range = None
    THEN [log EXCEPT !.timestamp_range = <<timestamp, timestamp>>]
    ELSE [log EXCEPT !.timestamp_range = <<Min(log.timestamp_range[1], timestamp),
                                           Max(log.timestamp_range[2], timestamp)>>]

InSeq(x, seq) == \E i \in 1..Len(seq) : seq[i] = x

\* The cache part of _process_timestamp for one cache entry.
cache_insert(cache, key, timestamp) ==
    IF InSeq(key, cache.keys) /\ ~InSeq(timestamp, cache.timestamps)
    THEN [cache EXCEPT !.timestamps =
             InsertAt(cache.timestamps, insert_index(cache.timestamps, timestamp), timestamp)]
    ELSE cache

_process_timestamp(log, key, timestamp) ==
    LET ranged == update_range_with_timestamp(log, timestamp)
    IN  [ranged EXCEPT !.timestamp_set_cache =
            [u \in DOMAIN log.timestamp_set_cache |->
                cache_insert(log.timestamp_set_cache[u], key, timestamp)]]

\* Log.put_raw, put_boolean, put_number, put_string: four methods of one
\* shape, the LoggableType each names passed as put_type.
Log_put(log, put_type, key, timestamp, value) ==
    LET created == create_blank_field(log, key, put_type)
        written == [created EXCEPT !.fields[key] =
                       LogField_put(created.fields[key], put_type, timestamp, value)]
    IN  IF written.fields[key].type = put_type
        THEN _process_timestamp(written, key, timestamp)
        ELSE written

put_raw(log, key, timestamp, value) == Log_put(log, RAW, key, timestamp, value)
put_boolean(log, key, timestamp, value) == Log_put(log, BOOLEAN_TYPE, key, timestamp, value)
put_number(log, key, timestamp, value) == Log_put(log, NUMBER, key, timestamp, value)
put_string(log, key, timestamp, value) == Log_put(log, STRING_TYPE, key, timestamp, value)

SortedSeq(S) ==
    CHOOSE seq \in [1..Cardinality(S) -> S] :
        \A i, j \in 1..Cardinality(S) : i < j => seq[i] < seq[j]

SeqRange(seq) == {seq[i] : i \in 1..Len(seq)}

\* sorted(list(set(...))) over the timestamps of the fields of keys that exist.
union_timestamps(log, keys) ==
    SortedSeq(UNION {SeqRange(log.fields[keys[i]].data.timestamps) :
                        i \in {j \in 1..Len(keys) : keys[j] \in DOMAIN log.fields}})

source_counts(log, keys) ==
    [i \in 1..Len(keys) |->
        IF keys[i] \in DOMAIN log.fields THEN Len(log.fields[keys[i]].data.timestamps) ELSE 0]

\* The list comprehension [k for k in keys if k != key].
RECURSIVE without_key(_, _)
without_key(keys, key) ==
    IF keys = <<>> THEN <<>>
    ELSE IF Head(keys) = key THEN without_key(Tail(keys), key)
         ELSE <<Head(keys)>> \o without_key(Tail(keys), key)

\* Mutant of delete_field: the generated-parent registration is kept.
delete_field_keeps_parent(log, key) ==
    IF key \notin DOMAIN log.fields
    THEN log
    ELSE [log EXCEPT !.fields = [k \in DOMAIN log.fields \ {key} |-> log.fields[k]]]

delete_field(log, key) ==
    IF key \notin DOMAIN log.fields
    THEN log
    ELSE LET removed == [log EXCEPT
                 !.fields = [k \in DOMAIN log.fields \ {key} |-> log.fields[k]],
                 !.generated_parents = log.generated_parents \ {key}]
         IN  [removed EXCEPT !.timestamp_set_cache =
                 [u \in DOMAIN log.timestamp_set_cache |->
                     LET cache == log.timestamp_set_cache[u]
                         kept == without_key(cache.keys, key)
                     IN  IF InSeq(key, cache.keys)
                         THEN [keys |-> kept,
                               timestamps |-> union_timestamps(removed, kept),
                               source_counts |-> source_counts(removed, kept)]
                         ELSE cache]]

\* The trimming of one cached timestamp list in Log.clear_before_time.
RECURSIVE cache_pop(_, _)
cache_pop(timestamps, timestamp) ==
    IF Len(timestamps) >= 2 /\ timestamps[2] <= timestamp
    THEN cache_pop(Tail(timestamps), timestamp)
    ELSE timestamps

cache_clear(timestamps, timestamp) ==
    LET popped == cache_pop(timestamps, timestamp)
    IN  IF Len(popped) > 0 /\ popped[1] < timestamp
        THEN [popped EXCEPT ![1] = timestamp]
        ELSE popped

\* Mutant of clear_before_time: the tracked range is left alone.
clear_before_time_keeps_range(log, timestamp) ==
    [log EXCEPT
        !.fields =
            [k \in DOMAIN log.fields |-> LogField_clear_before_time(log.fields[k], timestamp)]]

clear_before_time(log, timestamp) ==
    [log EXCEPT
        !.timestamp_range =
            IF log.timestamp_range = None
            THEN <<timestamp, timestamp>>
            ELSE IF log.timestamp_range[1] < timestamp
                 THEN <<timestamp, Max(timestamp, log.timestamp_range[2])>>
                 ELSE log.timestamp_range,
        !.timestamp_set_cache =
            [u \in DOMAIN log.timestamp_set_cache |->
                [log.timestamp_set_cache[u] EXCEPT
                    !.timestamps = cache_clear(log.timestamp_set_cache[u].timestamps, timestamp)]],
        !.fields =
            [k \in DOMAIN log.fields |-> LogField_clear_before_time(log.fields[k], timestamp)]]

\* Mutant of get_generated_parent: a prefix test without the '/' boundary.
get_generated_parent_any_prefix(log, key) ==
    {parent_key \in log.generated_parents :
        /\ Len(key) > Len(parent_key) + 1
        /\ startswith(key, parent_key)}

get_generated_parent(log, key) ==
    {parent_key \in log.generated_parents :
        /\ Len(key) > Len(parent_key) + 1
        /\ startswith(key, parent_key \o <<"/">>)}

is_generated(log, key) == get_generated_parent(log, key) # {}

is_generated_parent(log, key) == key \in log.generated_parents

set_generated_parent(log, key) ==
    [log EXCEPT !.generated_parents = log.generated_parents \cup {key}]

DEFAULT_TIMESTAMP_RANGE == <<0, 10>>

get_timestamp_range(log) ==
    IF log.timestamp_range = None THEN DEFAULT_TIMESTAMP_RANGE ELSE log.timestamp_range

get_range(log, key, start, end) ==
    IF key \in DOMAIN log.fields
    THEN LogField_get_range(log.fields[key], start, end)
    ELSE PyNone


\* The methods class LogField defines for reading a typed range; a call of
\* any other name on a LogField object raises AttributeError.
LogField_getters == {"get_raw", "get_boolean", "get_number", "get_string"}

\* LogField.get_raw .. get_string: four methods of one shape.
LogField_get(field, get_type, start, end) ==
    IF field.type # get_type
    THEN PyNone
    ELSE LogField_get_range(field, start, end)

\* Log.get_raw .. get_string_array: seven methods of one shape, each
\* calling the method of the same name on the field when the key exists.
Log_get(log, method, get_type, key, start, end) ==
    IF key \in DOMAIN log.fields
    THEN IF method \in LogField_getters
         THEN LogField_get(log.fields[key], get_type, start, end)
         ELSE AttributeError
    ELSE PyNone

get_raw(log, key, start, end) == Log_get(log, "get_raw", RAW, key, start, end)
get_boolean(log, key, start, end) == Log_get(log, "get_boolean", BOOLEAN_TYPE, key, start, end)
get_number(log, key, start, end) == Log_get(log, "get_number", NUMBER, key, start, end)
get_string(log, key, start, end) == Log_get(log, "get_string", STRING_TYPE, key, start, end)
get_boolean_array(log, key, start, end) ==
    Log_get(log, "get_boolean_array", BOOLEAN_ARRAY, key, start, end)
get_number_array(log, key, start, end) ==
    Log_get(log, "get_number_array", NUMBER_ARRAY, key, start, end)
get_string_array(log, key, start, end) ==
    Log_get(log, "get_string_array", STRING_ARRAY, key, start, end)

\* Log.set_field: the field object of key is replaced, nothing else.
set_field(log, key, field) ==
    [log EXCEPT !.fields = [k \in DOMAIN log.fields \cup {key} |->
                               IF k = key THEN field ELSE log.fields[k]]]

set_structured_type(log, key, type_str) ==
    IF key \in DOMAIN log.fields
    THEN [log EXCEPT !.fields[key].structured_type = type_str]
    ELSE log

\* The keys of get_timestamps that name a field, in their order.
RECURSIVE existing_keys(_, _)
existing_keys(log, keys) ==
    IF keys = <<>> THEN <<>>
    ELSE IF Head(keys) \in DOMAIN log.fields
         THEN <<Head(keys)>> \o existing_keys(log, Tail(keys))
         ELSE existing_keys(log, Tail(keys))

\* Log.get_timestamps: output is what the call returns, log the Log after
\* it.  uuid is None or <<u>>; the cache is enabled, as it is by default.
get_timestamps(log, keys, uuid) ==
    LET existing == existing_keys(log, keys)
    IN  IF Len(existing) > 1
        THEN IF /\ uuid # None
                /\ uuid[1] \in DOMAIN log.timestamp_set_cache
                /\ log.timestamp_set_cache[uuid[1]].keys = existing
                /\ log.timestamp_set_cache[uuid[1]].source_counts = source_counts(log, existing)
             THEN [output |-> log.timestamp_set_cache[uuid[1]].timestamps, log |-> log]
             ELSE LET output == union_timestamps(log, existing)
                  IN  [output |-> output,
                       log |-> IF uuid # None
                               THEN [log EXCEPT !.timestamp_set_cache =
                                        [u \in DOMAIN log.timestamp_set_cache \cup {uuid[1]} |->
                                            IF u = uuid[1]
                                            THEN [keys |-> existing,
                                                  timestamps |-> output,
                                                  source_counts |-> source_counts(log, existing)]
                                            ELSE log.timestamp_set_cache[u]]]
                               ELSE log]
        ELSE IF Len(existing) = 1
             THEN [output |-> log.fields[existing[1]].data.timestamps, log |-> log]
             ELSE [output |-> <<>>, log |-> log]

\* float(value) of an int or a float.
float(value) == IF value.py = "int" THEN PyFloat(value.v) ELSE value

\* all(isinstance(item, ...)) over a list; for (int, float) a bool is an
\* int.
AllItems(items, types) == \A i \in 1..Len(items) : items[i].py \in types

RECURSIVE _put_unknown_struct(_, _, _, _, _)
RECURSIVE put_list_items(_, _, _, _, _)
RECURSIVE put_dict_items(_, _, _, _)

\* The for loop of _put_unknown_struct over a list, from index i; an
\* exception of an item ends the loop.
put_list_items(log, key, timestamp, items, i) ==
    IF i >= Len(items) \/ log.raised # None
    THEN log
    ELSE put_list_items(
             _put_unknown_struct(log, key \o <<"/">> \o str(i), timestamp, items[i + 1], TRUE),
             key, timestamp, items, i + 1)

\* The for loop of _put_unknown_struct over the items of a dict.
put_dict_items(log, key, timestamp, items) ==
    IF items = <<>> \/ log.raised # None
    THEN log
    ELSE put_dict_items(
             _put_unknown_struct(log, key \o <<"/">> \o Head(items)[1], timestamp,
                                 Head(items)[2], TRUE),
             key, timestamp, Tail(items))

\* Log has no put_boolean_array, put_number_array or put_string_array: the
\* three calls of the list branch raise AttributeError.
_put_unknown_struct(log, key, timestamp, value, allow_root_write) ==
    CASE value.py = "NoneType" -> log
      [] value.py = "bool" /\ allow_root_write -> put_boolean(log, key, timestamp, value)
      [] value.py \in {"int", "float"} /\ allow_root_write ->
            put_number(log, key, timestamp, float(value))
      [] value.py = "str" /\ allow_root_write -> put_string(log, key, timestamp, value)
      [] value.py = "bytes" /\ allow_root_write -> put_raw(log, key, timestamp, value)
      [] value.py = "list" ->
            IF /\ allow_root_write
               /\ \/ AllItems(value.v, {"bool"})
                  \/ AllItems(value.v, {"bool", "int", "float"})
                  \/ AllItems(value.v, {"str"})
            THEN [log EXCEPT !.raised = <<"AttributeError">>]
            ELSE put_list_items(
                     put_number(log, key \o <<"/", "l", "e", "n", "g", "t", "h">>, timestamp,
                                PyInt(Len(value.v))),
                     key, timestamp, value.v, 0)
      [] value.py = "dict" -> put_dict_items(log, key, timestamp, value.v)
      [] OTHER -> log

QueuedStructure(key, timestamp, value, schema_type) ==
    [key |-> key, timestamp |-> timestamp, value |-> value, schema_type |-> schema_type]

\* The for loop of put_struct over the items of decoded_data["schema_types"].
RECURSIVE put_schema_types(_, _, _, _)
put_schema_types(log, key, timestamp, schema_types) ==
    IF schema_types = <<>>
    THEN log
    ELSE LET full_child_key == key \o <<"/">> \o Head(schema_types)[1]
             blank == create_blank_field(log, full_child_key, EMPTY)
             stamped == _process_timestamp(blank, full_child_key, timestamp)
         IN  put_schema_types(
                 set_structured_type(stamped, full_child_key, <<Head(schema_types)[2]>>),
                 key, timestamp, Tail(schema_types))

\* Log.put_struct; value is the byte string.  An exception of the decoder
\* is swallowed, one of _put_unknown_struct ends the call.
put_struct(log, key, timestamp, value, schema_type, is_array) ==
    LET raw == put_raw(log, key, timestamp, PyBytes(value))
    IN  IF raw.fields[key].type # RAW
        THEN raw
        ELSE LET typed == set_structured_type(set_generated_parent(raw, key), key,
                              <<schema_type \o (IF is_array THEN "[]" ELSE "")>>)
                 decoded_data == IF is_array
                                 THEN decode_array(log.struct_decoder, schema_type, value, None)
                                 ELSE decode(log.struct_decoder, schema_type, value)
             IN  IF IsRaised(decoded_data)
                 THEN IF is_array
                      THEN [typed EXCEPT !.queued_struct_arrays =
                               Append(@, QueuedStructure(key, timestamp, value, schema_type))]
                      ELSE [typed EXCEPT !.queued_structs =
                               Append(@, QueuedStructure(key, timestamp, value, schema_type))]
                 ELSE LET expanded == _put_unknown_struct(typed, key, timestamp,
                                                          decoded_data.data, FALSE)
                      IN  IF expanded.raised # None
                          THEN expanded
                          ELSE put_schema_types(expanded, key, timestamp,
                                                decoded_data.schema_types)

(***************************************************************************)
(* json.loads (src/Log.py:677) for the JSON texts without white space,     *)
(* without escapes in strings and with whole numbers.  A text is a         *)
(* sequence of characters, a position an index into it; the parser gives   *)
(* JSONDecodeError or the value and the position after it.                 *)
(***************************************************************************)
JSONDecodeError == Raised("JSONDecodeError")

Digits == {"0", "1", "2", "3", "4", "5", "6", "7", "8", "9"}

DigitValue(c) == CHOOSE d \in 0..9 : ToString(d) = c

\* s[i:] starts with the literal.
LiteralAt(s, i, literal) ==
    /\ i + Len(literal) - 1 <= Len(s)
    /\ SubSeq(s, i, i + Len(literal) - 1) = literal

RECURSIVE scan_digits(_, _, _)
scan_digits(s, i, acc) ==
    IF i <= Len(s) /\ s[i] \in Digits
    THEN scan_digits(s, i + 1, acc * 10 + DigitValue(s[i]))
    ELSE [val |-> acc, pos |-> i]

\* A whole number: "0", or a digit 1..9 and the digits after it.
scan_number(s, i) ==
    IF i > Len(s) \/ s[i] \notin Digits
    THEN JSONDecodeError
    ELSE IF s[i] = "0"
    THEN [val |-> 0, pos |-> i + 1]
    ELSE scan_digits(s, i, 0)

\* A string at i: the characters up to the next quotation mark.
scan_string(s, i) ==
    IF i > Len(s) \/ s[i] # "\""
    THEN JSONDecodeError
    ELSE LET closing == {j \in (i + 1)..Len(s) : s[j] = "\""}
         IN  IF closing = {}
             THEN JSONDecodeError
             ELSE LET j == CHOOSE j \in closing : \A k \in closing : j <= k
                  IN  [val |-> SubSeq(s, i + 1, j - 1), pos |-> j + 1]

RECURSIVE parse_value(_, _)
RECURSIVE parse_items(_, _, _)
RECURSIVE parse_members(_, _, _)

\* The items of an array after "[" or ",".
parse_items(s, i, acc) ==
    LET item == parse_value(s, i)
    IN  IF IsRaised(item) \/ item.pos > Len(s)
        THEN JSONDecodeError
        ELSE IF s[item.pos] = ","
        THEN parse_items(s, item.pos + 1, Append(acc, item.val))
        ELSE IF s[item.pos] = "]"
        THEN [val |-> PyList(Append(acc, item.val)), pos |-> item.pos + 1]
        ELSE JSONDecodeError

\* The members of an object after "{" or ",": a repeated name keeps its
\* place and takes the later value.
parse_members(s, i, acc) ==
    LET name == scan_string(s, i)
    IN  IF IsRaised(name) \/ name.pos > Len(s) \/ s[name.pos] # ":"
        THEN JSONDecodeError
        ELSE LET member == parse_value(s, name.pos + 1)
             IN  IF IsRaised(member) \/ member.pos > Len(s)
                 THEN JSONDecodeError
                 ELSE IF s[member.pos] = ","
                 THEN parse_members(s, member.pos + 1, DictSet(acc, name.val, member.val))
                 ELSE IF s[member.pos] = "}"
                 THEN [val |-> PyDict(DictSet(acc, name.val, member.val)),
                       pos |-> member.pos + 1]
                 ELSE JSONDecodeError

parse_value(s, i) ==
    IF i > Len(s)
    THEN JSONDecodeError
    ELSE IF s[i] = "{"
    THEN IF LiteralAt(s, i, <<"{", "}">>)
         THEN [val |-> PyDict(<<>>), pos |-> i + 2]
         ELSE parse_members(s, i + 1, <<>>)
    ELSE IF s[i] = "["
    THEN IF LiteralAt(s, i, <<"[", "]">>)
         THEN [val |-> PyList(<<>>), pos |-> i + 2]
         ELSE parse_items(s, i + 1, <<>>)
    ELSE IF s[i] = "\""
    THEN LET string == scan_string(s, i)
         IN  IF IsRaised(string) THEN string
             ELSE [val |-> PyStr(string.val), pos |-> string.pos]
    ELSE IF LiteralAt(s, i, <<"t", "r", "u", "e">>)
    THEN [val |-> PyBool(TRUE), pos |-> i + 4]
    ELSE IF LiteralAt(s, i, <<"f", "a", "l", "s", "e">>)
    THEN [val |-> PyBool(FALSE), pos |-> i + 5]
    ELSE IF LiteralAt(s, i, <<"n", "u", "l", "l">>)
    THEN [val |-> PyNone, pos |-> i + 4]
    ELSE IF s[i] = "-"
    THEN LET number == scan_number(s, i + 1)
         IN  IF IsRaised(number) THEN number
             ELSE [val |-> PyInt(0 - number.val), pos |-> number.pos]
    ELSE LET number == scan_number(s, i)
         IN  IF IsRaised(number) THEN number
             ELSE [val |-> PyInt(number.val), pos |-> number.pos]

\* json.loads(text): characters after the value are "Extra data".
json_loads(text) ==
    LET parsed == parse_value(text, 1)
    IN  IF IsRaised(parsed) \/ parsed.pos # Len(text) + 1
        THEN JSONDecodeError
        ELSE [val |-> parsed.val]

\* Log.put_json; value is the str.  JSONDecodeError is swallowed, an
\* exception of _put_unknown_struct ends the call.
put_json(log, key, timestamp, value) ==
    LET written == put_string(log, key, timestamp, value)
    IN  IF written.fields[key].type # STRING_TYPE
        THEN written
        ELSE LET typed == set_structured_type(set_generated_parent(written, key), key,
                                              <<"JSON">>)
                 decoded_value == json_loads(value.v)
             IN  IF IsRaised(decoded_value)
                 THEN typed
                 ELSE _put_unknown_struct(typed, key, timestamp, decoded_value.val, FALSE)

(***************************************************************************)
(* src/datalog.py: DataLogReader and DataLogIterator.  A buffer is a       *)
(* sequence of bytes; positions count from 0 as in the source.             *)
(***************************************************************************)
DataLogRecord(entry, timestamp, data) ==
    [entry |-> entry, timestamp |-> timestamp, data |-> data]

DataLogIterator(buffer, position) == [buf |-> buffer, pos |-> position]

StopIteration == Raised("StopIteration")

\* The loop of _readVarInt: val |= buf[pos + i] << (i * 8) for i < len.
RECURSIVE _readVarInt(_, _, _)
_readVarInt(buffer, position, len) ==
    IF len = 0 THEN 0
    ELSE buffer[position + 1] + 256 * _readVarInt(buffer, position + 1, len - 1)

\* Mutant of __next__: the size of the payload is read from the header but
\* not compared with what the buffer holds.
next_unchecked_payload(it) ==
    IF Len(it.buf) < it.pos + 4
    THEN StopIteration
    ELSE LET entryLen == (it.buf[it.pos + 1] % 4) + 1
             sizeLen == ((it.buf[it.pos + 1] \div 4) % 4) + 1
             timestampLen == ((it.buf[it.pos + 1] \div 16) % 8) + 1
             headerLen == 1 + entryLen + sizeLen + timestampLen
         IN  IF Len(it.buf) < it.pos + headerLen
             THEN StopIteration
             ELSE LET entry == _readVarInt(it.buf, it.pos + 1, entryLen)
                      size == _readVarInt(it.buf, it.pos + 1 + entryLen, sizeLen)
                      timestamp == _readVarInt(it.buf, it.pos + 1 + entryLen + sizeLen,
                                               timestampLen)
                  IN  [record |-> DataLogRecord(entry, timestamp,
                                     PySlice(it.buf, it.pos + headerLen,
                                             it.pos + headerLen + size)),
                       it |-> [it EXCEPT !.pos = it.pos + headerLen + size]]

\* Mutant of __next__: the position advances by the header alone.
next_header_only(it) ==
    IF Len(it.buf) < it.pos + 4
    THEN StopIteration
    ELSE LET entryLen == (it.buf[it.pos + 1] % 4) + 1
             sizeLen == ((it.buf[it.pos + 1] \div 4) % 4) + 1
             timestampLen == ((it.buf[it.pos + 1] \div 16) % 8) + 1
             headerLen == 1 + entryLen + sizeLen + timestampLen
         IN  IF Len(it.buf) < it.pos + headerLen
             THEN StopIteration
             ELSE LET entry == _readVarInt(it.buf, it.pos + 1, entryLen)
                      size == _readVarInt(it.buf, it.pos + 1 + entryLen, sizeLen)
                      timestamp == _readVarInt(it.buf, it.pos + 1 + entryLen + sizeLen,
                                               timestampLen)
                  IN  IF Len(it.buf) < it.pos + headerLen + size
                      THEN StopIteration
                      ELSE [record |-> DataLogRecord(entry, timestamp,
                                          PySlice(it.buf, it.pos + headerLen,
                                                  it.pos + headerLen + size)),
                            it |-> [it EXCEPT !.pos = it.pos + headerLen]]

\* DataLogIterator.__next__: StopIteration, or the record it returns and
\* the iterator after the call.
__next__(it) ==
    IF Len(it.buf) < it.pos + 4
    THEN StopIteration
    ELSE LET entryLen == (it.buf[it.pos + 1] % 4) + 1
             sizeLen == ((it.buf[it.pos + 1] \div 4) % 4) + 1
             timestampLen == ((it.buf[it.pos + 1] \div 16) % 8) + 1
             headerLen == 1 + entryLen + sizeLen + timestampLen
         IN  IF Len(it.buf) < it.pos + headerLen
             THEN StopIteration
             ELSE LET entry == _readVarInt(it.buf, it.pos + 1, entryLen)
                      size == _readVarInt(it.buf, it.pos + 1 + entryLen, sizeLen)
                      timestamp == _readVarInt(it.buf, it.pos + 1 + entryLen + sizeLen,
                                               timestampLen)
                  IN  IF Len(it.buf) < it.pos + headerLen + size
                      THEN StopIteration
                      ELSE [record |-> DataLogRecord(entry, timestamp,
                                          PySlice(it.buf, it.pos + headerLen,
                                                  it.pos + headerLen + size)),
                            it |-> [it EXCEPT !.pos = it.pos + headerLen + size]]

\* int.from_bytes(..., byteorder="little", signed=False) of a byte string.
from_bytes(bs) == unsigned_le(bs)

\* DataLogReader.__iter__.
__iter__(buffer) ==
    LET extraHeaderSize == from_bytes(PySlice(buffer, 8, 12))
    IN  DataLogIterator(buffer, 12 + extraHeaderSize)

(***************************************************************************)
(* src/datalog.py: the readers of class DataLogRecord.  A str is the       *)
(* sequence of its characters.                                             *)
(***************************************************************************)
kControlStart == 0
kControlFinish == 1
kControlSetMetadata == 2

\* The characters of the codes 32..126 (the grave accent, 96, by its code).
PrintableChars ==
    <<" ", "!", "\"", "#", "$", "%", "&", "'", "(", ")", "*", "+", ",", "-",
      ".", "/", "0", "1", "2", "3", "4", "5", "6", "7", "8", "9", ":", ";",
      "<", "=", ">", "?", "@", "A", "B", "C", "D", "E", "F", "G", "H", "I",
      "J", "K", "L", "M", "N", "O", "P", "Q", "R", "S", "T", "U", "V", "W",
      "X", "Y", "Z", "[", "\\", "]", "^", "_", "\\x96", "a", "b", "c", "d", "e",
      "f", "g", "h", "i", "j", "k", "l", "m", "n", "o", "p", "q", "r", "s",
      "t", "u", "v", "w", "x", "y", "z", "{", "|", "}", "~">>

chr(code) ==
    IF code >= 32 /\ code <= 126
    THEN PrintableChars[code - 31]
    ELSE "\\x" \o ToString(code)

\* str(data, encoding="utf-8"): a byte above 127 that is alone is not UTF-8.
str_utf8(bs) ==
    IF \E i \in 1..Len(bs) : bs[i] >= 128
    THEN Raised("UnicodeDecodeError")
    ELSE [val |-> [i \in 1..Len(bs) |-> chr(bs[i])]]

StartRecordData(entry, name, type_, metadata) ==
    [entry |-> entry, name |-> name, type |-> type_, metadata |-> metadata]

isControl(record) == record.entry = 0

_getControlType(record) == record.data[1]

isStart(record) ==
    /\ record.entry = 0
    /\ Len(record.data) >= 17
    /\ _getControlType(record) = kControlStart

isFinish(record) ==
    /\ record.entry = 0
    /\ Len(record.data) = 5
    /\ _getControlType(record) = kControlFinish

isSetMetadata(record) ==
    /\ record.entry = 0
    /\ Len(record.data) >= 9
    /\ _getControlType(record) = kControlSetMetadata

\* _readInnerString: TypeError, UnicodeDecodeError, or the string and the
\* position after it.
_readInnerString(record, position) ==
    LET size == from_bytes(PySlice(record.data, position, position + 4))
        end == position + 4 + size
    IN  IF end > Len(record.data)
        THEN Raised("TypeError")
        ELSE LET decoded == str_utf8(PySlice(record.data, position + 4, end))
             IN  IF IsRaised(decoded) THEN decoded
                 ELSE [val |-> decoded.val, pos |-> end]

getStartData(record) ==
    IF ~isStart(record)
    THEN Raised("TypeError")
    ELSE LET entry == from_bytes(PySlice(record.data, 1, 5))
             name == _readInnerString(record, 5)
         IN  IF IsRaised(name) THEN name
             ELSE LET type_ == _readInnerString(record, name.pos)
                  IN  IF IsRaised(type_) THEN type_
                      ELSE LET metadata == _readInnerString(record, type_.pos)
                           IN  IF IsRaised(metadata) THEN metadata
                               ELSE [val |-> StartRecordData(entry, name.val, type_.val,
                                                             metadata.val)]

getFinishEntry(record) ==
    IF ~isFinish(record)
    THEN Raised("TypeError")
    ELSE [val |-> from_bytes(PySlice(record.data, 1, 5))]

getSetMetadataData(record) ==
    IF ~isSetMetadata(record)
    THEN Raised("TypeError")
    ELSE LET metadata == _readInnerString(record, 5)
         IN  IF IsRaised(metadata) THEN metadata
             ELSE [val |-> [entry |-> from_bytes(PySlice(record.data, 1, 5)),
                            metadata |-> metadata.val]]

getBoolean(record) ==
    IF Len(record.data) # 1
    THEN Raised("TypeError")
    ELSE [val |-> PyBool(record.data[1] # 0)]

getInteger(record) ==
    IF Len(record.data) # 8
    THEN Raised("TypeError")
    ELSE [val |-> PyInt(signed_le(record.data))]

\* The value of a float or a double is kept as its bytes.
getFloat(record) ==
    IF Len(record.data) # 4
    THEN Raised("TypeError")
    ELSE [val |-> PyFloat([ieee754 |-> record.data])]

getDouble(record) ==
    IF Len(record.data) # 8
    THEN Raised("TypeError")
    ELSE [val |-> PyFloat([ieee754 |-> record.data])]

getString(record) ==
    LET decoded == str_utf8(record.data)
    IN  IF IsRaised(decoded) THEN decoded ELSE [val |-> PyStr(decoded.val)]


(***************************************************************************)
(* src/analysis.py: process_log_file.  The string literals of the function *)
(* as sequences of characters.                                             *)
(***************************************************************************)
STRUCT_PREFIX == <<"s", "t", "r", "u", "c", "t", ":">>

\* The names of the three driver station entries.
DriverStationEntry ==
    [Enabled |->
         <<"/", "D", "r", "i", "v", "e", "r", "S", "t", "a", "t", "i", "o", "n", "/", "E", "n", "a", "b", "l", "e", "d">>,
     Autonomous |->
         <<"/", "D", "r", "i", "v", "e", "r", "S", "t", "a", "t", "i", "o", "n", "/", "A", "u", "t", "o", "n", "o", "m", "o", "u", "s">>,
     FMSAttached |->
         <<"/", "D", "r", "i", "v", "e", "r", "S", "t", "a", "t", "i", "o", "n", "/", "F", "M", "S", "A", "t", "t", "a", "c", "h", "e", "d">>]

\* The type strings of the routing; x_array is the string "x[]".
TypeStr ==
    [boolean |-> <<"b", "o", "o", "l", "e", "a", "n">>,
     int |-> <<"i", "n", "t">>,
     int64 |-> <<"i", "n", "t", "6", "4">>,
     float |-> <<"f", "l", "o", "a", "t">>,
     double |-> <<"d", "o", "u", "b", "l", "e">>,
     string |-> <<"s", "t", "r", "i", "n", "g">>,
     boolean_array |-> <<"b", "o", "o", "l", "e", "a", "n", "[", "]">>,
     int_array |-> <<"i", "n", "t", "[", "]">>,
     int64_array |-> <<"i", "n", "t", "6", "4", "[", "]">>,
     float_array |-> <<"f", "l", "o", "a", "t", "[", "]">>,
     double_array |-> <<"d", "o", "u", "b", "l", "e", "[", "]">>,
     string_array |-> <<"s", "t", "r", "i", "n", "g", "[", "]">>,
     json |-> <<"j", "s", "o", "n">>,
     msgpack |-> <<"m", "s", "g", "p", "a", "c", "k">>]

DOT_SCHEMA == <<".", "s", "c", "h", "e", "m", "a">>
ARRAY_SUFFIX == <<"[", "]">>

\* needle in haystack, for two str.
Contains(haystack, needle) ==
    \E i \in 0..(Len(haystack) - Len(needle)) :
        SubSeq(haystack, i + 1, i + Len(needle)) = needle

endswith(s, suffix) ==
    /\ Len(suffix) <= Len(s)
    /\ SubSeq(s, Len(s) - Len(suffix) + 1, Len(s)) = suffix

\* The position of the first sep in s at or after position from, or -1.
find(s, sep, from) ==
    LET hits == {i \in from..(Len(s) - Len(sep)) : SubSeq(s, i + 1, i + Len(sep)) = sep}
    IN  IF hits = {} THEN -1 ELSE CHOOSE i \in hits : \A j \in hits : i <= j

\* s.split(sep)[1]: IndexError when s has no sep.
split_1(s, sep) ==
    LET first == find(s, sep, 0)
        from == first + Len(sep)
        second == find(s, sep, from)
    IN  IF first = -1
        THEN Raised("IndexError")
        ELSE [val |-> PySlice(s, from, IF second = -1 THEN Len(s) ELSE second)]

\* A str as the name of a schema of the decoder.
RECURSIVE JoinChars(_)
JoinChars(s) == IF s = <<>> THEN "" ELSE Head(s) \o JoinChars(Tail(s))

\* Mutant of should_capture_record: the robot mode is not read.
should_capture_any_mode(params, enabled, autonomous, fms_attached) ==
    IF params.filter_enabled /\ enabled # None /\ ~enabled[1].v
    THEN FALSE
    ELSE IF params.filter_fms_attached /\ fms_attached # None /\ ~fms_attached[1].v
    THEN FALSE
    ELSE TRUE

\* params holds the parameters of process_log_file that the function reads.
should_capture_record(params, enabled, autonomous, fms_attached) ==
    IF params.filter_enabled /\ enabled # None /\ ~enabled[1].v
    THEN FALSE
    ELSE IF params.filter_fms_attached /\ fms_attached # None /\ ~fms_attached[1].v
    THEN FALSE
    ELSE IF params.robot_mode = "auto" /\ autonomous # None /\ ~autonomous[1].v
    THEN FALSE
    ELSE IF params.robot_mode = "teleop" /\ autonomous # None /\ autonomous[1].v
    THEN FALSE
    ELSE TRUE

\* The state of one run of process_log_file: its locals, its parameters and
\* the exception that ended it, if any.
Run(log, entries_, enabled, autonomous, fms_attached, exited_) ==
    [log |-> log, entries |-> entries_,
     driver_station_enabled |-> enabled,
     driver_station_autonomous |-> autonomous,
     driver_station_fms_attached |-> fms_attached,
     exited |-> exited_]

\* A call log.put_x(key, timestamp, record.getX()), put_x the typed put of
\* log_type: the getter raises before the put is entered.
put_got(run, got, log_type, key, timestamp) ==
    IF IsRaised(got)
    THEN [run EXCEPT !.exited = <<got.raised>>]
    ELSE [run EXCEPT !.log = Log_put(run.log, log_type, key, timestamp, got.val)]

\* Lines 407-415: the driver station values, a TypeError swallowed.
track_driver_station(run, entry, record) ==
    LET got == getBoolean(record)
    IN  IF entry.type # TypeStr.boolean \/ IsRaised(got)
        THEN run
        ELSE IF entry.name = DriverStationEntry.Enabled
        THEN [run EXCEPT !.driver_station_enabled = <<got.val>>]
        ELSE IF entry.name = DriverStationEntry.Autonomous
        THEN [run EXCEPT !.driver_station_autonomous = <<got.val>>]
        ELSE IF entry.name = DriverStationEntry.FMSAttached
        THEN [run EXCEPT !.driver_station_fms_attached = <<got.val>>]
        ELSE run

\* Lines 417-419: DataLogRecord has no method getBytes, so the call raises
\* once the first argument is evaluated.
register_schema(run, entry, record) ==
    IF ~Contains(entry.name, DOT_SCHEMA)
    THEN run
    ELSE LET name == split_1(entry.name, STRUCT_PREFIX)
         IN  IF IsRaised(name)
             THEN [run EXCEPT !.exited = <<name.raised>>]
             ELSE [run EXCEPT !.exited = <<"AttributeError">>]

\* The end of a call of a method of the Log: its exception leaves the
\* function, or the run goes on with the Log it returns.
after_call(run, log) ==
    IF log.raised # None
    THEN [run EXCEPT !.exited = log.raised]
    ELSE [run EXCEPT !.log = log]

\* The call log.put_json(key, timestamp, record.getString()) of line 449.
put_json_got(run, got, key, timestamp) ==
    IF IsRaised(got)
    THEN [run EXCEPT !.exited = <<got.raised>>]
    ELSE after_call(run, put_json(run.log, key, timestamp, got.val))

\* The getter of a scalar type and the type of the put that receives its
\* value (lines 428-437).
typed_getter(type_str, record) ==
    IF type_str = TypeStr.boolean
    THEN [log_type |-> BOOLEAN_TYPE, got |-> getBoolean(record)]
    ELSE IF type_str \in {TypeStr.int, TypeStr.int64}
    THEN [log_type |-> NUMBER, got |-> getInteger(record)]
    ELSE IF type_str = TypeStr.float
    THEN [log_type |-> NUMBER, got |-> getFloat(record)]
    ELSE IF type_str = TypeStr.double
    THEN [log_type |-> NUMBER, got |-> getDouble(record)]
    ELSE IF type_str = TypeStr.string
    THEN [log_type |-> STRING_TYPE, got |-> getString(record)]
    ELSE [log_type |-> RAW, got |-> [val |-> PyBytes(record.data)]]

\* Lines 424-460.  Log has no put_boolean_array, put_number_array or
\* put_string_array: the attribute lookup raises before the getter runs.
\* The msgpack route is outside this model: exited is "unmodelled".
route_record(run, entry, record, timestamp) ==
    LET key == entry.name
        type_str == entry.type
    IN  IF type_str \in {TypeStr.boolean_array, TypeStr.int_array,
                         TypeStr.int64_array, TypeStr.float_array,
                         TypeStr.double_array, TypeStr.string_array}
        THEN [run EXCEPT !.exited = <<"AttributeError">>]
        ELSE IF type_str = TypeStr.json
        THEN put_json_got(run, getString(record), key, timestamp)
        ELSE IF type_str = TypeStr.msgpack
        THEN [run EXCEPT !.exited = <<"unmodelled">>]
        ELSE IF /\ type_str \notin {TypeStr.boolean, TypeStr.int, TypeStr.int64,
                                    TypeStr.float, TypeStr.double, TypeStr.string}
                /\ startswith(type_str, STRUCT_PREFIX)
        THEN LET schema_type == split_1(type_str, STRUCT_PREFIX).val
                 is_array == endswith(schema_type, ARRAY_SUFFIX)
                 name == IF is_array
                         THEN PySlice(schema_type, 0, Len(schema_type) - 2)
                         ELSE schema_type
             IN  after_call(run, put_struct(run.log, key, timestamp, record.data,
                                            JoinChars(name), is_array))
        ELSE LET typed == typed_getter(type_str, record)
             IN  put_got(run, typed.got, typed.log_type, key, timestamp)

\* Mutant of is_captured: the mandatory entries pass the gates like the
\* other target entries.
is_captured_when_gated(params, run, entry) ==
    /\ \E name \in params.target_entry_names : Contains(name, entry.name)
    /\ should_capture_record(params, run.driver_station_enabled,
                             run.driver_station_autonomous,
                             run.driver_station_fms_attached)

is_captured(params, run, entry) ==
    \/ \E name \in params.mandatory_entries : Contains(name, entry.name)
    \/ /\ \E name \in params.target_entry_names : Contains(name, entry.name)
       /\ should_capture_record(params, run.driver_station_enabled,
                                run.driver_station_autonomous,
                                run.driver_station_fms_attached)

\* Lines 421-460: the capture test and the routing, unless an exception
\* has left the function.
capture_record(params, run, entry, record, timestamp) ==
    IF run.exited = None /\ is_captured(params, run, entry)
    THEN route_record(run, entry, record, timestamp)
    ELSE run

\* Lines 401-460: a record that is no control record.
data_record(params, run, record, timestamp) ==
    IF record.entry \notin DOMAIN run.entries
    THEN run
    ELSE LET entry == run.entries[record.entry]
         IN  capture_record(params,
                            register_schema(track_driver_station(run, entry, record),
                                            entry, record),
                            entry, record, timestamp)

\* Mutant of process_record: a Finish record leaves the entry started.
process_record_finish_ignored(params, run, record) ==
    LET timestamp == record.timestamp \div 1000000
    IN  IF isStart(record)
        THEN LET data == getStartData(record)
             IN  IF IsRaised(data)
                 THEN IF data.raised = "TypeError" THEN run
                      ELSE [run EXCEPT !.exited = <<data.raised>>]
                 ELSE [run EXCEPT !.entries =
                           [e \in DOMAIN run.entries \cup {data.val.entry} |->
                               IF e = data.val.entry THEN data.val ELSE run.entries[e]]]
        ELSE IF isFinish(record)
        THEN LET entry == getFinishEntry(record).val
             IN  IF entry \notin DOMAIN run.entries
                 THEN run
                 ELSE run
        ELSE IF isSetMetadata(record)
        THEN LET data == getSetMetadataData(record)
             IN  IF IsRaised(data) /\ data.raised # "TypeError"
                 THEN [run EXCEPT !.exited = <<data.raised>>]
                 ELSE run
        ELSE IF isControl(record)
        THEN run
        ELSE data_record(params, run, record, timestamp)

\* The body of the loop "for record in reader" (lines 372-460).  The time of
\* a record is a whole number of seconds in this model.
process_record(params, run, record) ==
    LET timestamp == record.timestamp \div 1000000
    IN  IF isStart(record)
        THEN LET data == getStartData(record)
             IN  IF IsRaised(data)
                 THEN IF data.raised = "TypeError" THEN run
                      ELSE [run EXCEPT !.exited = <<data.raised>>]
                 ELSE [run EXCEPT !.entries =
                           [e \in DOMAIN run.entries \cup {data.val.entry} |->
                               IF e = data.val.entry THEN data.val ELSE run.entries[e]]]
        ELSE IF isFinish(record)
        THEN LET entry == getFinishEntry(record).val
             IN  IF entry \notin DOMAIN run.entries
                 THEN run
                 ELSE [run EXCEPT !.entries =
                           [e \in DOMAIN run.entries \ {entry} |-> run.entries[e]]]
        ELSE IF isSetMetadata(record)
        THEN LET data == getSetMetadataData(record)
             IN  IF IsRaised(data) /\ data.raised # "TypeError"
                 THEN [run EXCEPT !.exited = <<data.raised>>]
                 ELSE run
        ELSE IF isControl(record)
        THEN run
        ELSE data_record(params, run, record, timestamp)


(***************************************************************************)
(* src/analysis.py: analyze_file_records and analyze_value_records, for    *)
(* one analysis of the configuration.  An analysis is the record of the    *)
(* keys the function reads from it; a missing key is None.                 *)
(***************************************************************************)
\* a == b of Python for the values of samples and of the configuration: a
\* bool is the number 0 or 1.
py_number(value) == IF value.py = "bool" THEN (IF value.v THEN 1 ELSE 0) ELSE value.v

py_eq(a, b) ==
    IF a.py \in {"bool", "int", "float"} /\ b.py \in {"bool", "int", "float"}
    THEN py_number(a) = py_number(b)
    ELSE a.py = b.py /\ a = b

get_field(log, key) == IF key \in DOMAIN log.fields THEN <<log.fields[key]>> ELSE None

\* Log.get_field_keys: the keys in some order; no caller of this model
\* depends on it.
get_field_keys(log) ==
    CHOOSE keys \in [1..Cardinality(DOMAIN log.fields) -> DOMAIN log.fields] :
        \A key \in DOMAIN log.fields : \E i \in DOMAIN keys : keys[i] = key

get_last_timestamp(log) ==
    LET timestamps == get_timestamps(log, get_field_keys(log), None).output
    IN  IF timestamps = <<>> THEN 0 ELSE timestamps[Len(timestamps)]

\* The chain "if field.get_type() == STRING: field.get_string(start, end)
\* elif BOOLEAN ... elif NUMBER ... else: skip": None for the else.
typed_range(field, start, end) ==
    IF field.type \in {STRING_TYPE, BOOLEAN_TYPE, NUMBER}
    THEN <<LogField_get(field, field.type, start, end)>>
    ELSE None

\* The first position of log_values at or after i whose value is value and,
\* when after is given, whose timestamp is greater; 0 when there is none.
RECURSIVE first_match(_, _, _, _)
first_match(log_values, value, after, i) ==
    IF i > Len(log_values.timestamps)
    THEN 0
    ELSE IF /\ py_eq(log_values.values[i], value)
            /\ after # None => log_values.timestamps[i] > after[1]
    THEN i
    ELSE first_match(log_values, value, after, i + 1)

AnalysisResult(name, values, timestamps) ==
    [name |-> name, values |-> values, timestamps |-> timestamps]

\* The loop of analyze_file_records over start_log_values from position i.
RECURSIVE time_differences_from(_, _, _, _, _, _)
time_differences_from(log, analysis, start_log_values, end_field, i, acc) ==
    IF i > Len(start_log_values.timestamps)
    THEN acc
    ELSE IF ~py_eq(start_log_values.values[i], analysis.startValue)
    THEN time_differences_from(log, analysis, start_log_values, end_field, i + 1, acc)
    ELSE LET start_timestamp == start_log_values.timestamps[i]
             j == first_match(start_log_values, analysis.startValue, <<start_timestamp>>, 1)
             next_timestamp == IF j = 0 THEN get_last_timestamp(log)
                               ELSE start_log_values.timestamps[j]
             end_log_values == typed_range(end_field, start_timestamp, next_timestamp)
             k == IF end_log_values = None THEN 0
                  ELSE first_match(end_log_values[1], analysis.endValue, None, 1)
         IN  time_differences_from(
                 log, analysis, start_log_values, end_field, i + 1,
                 IF k = 0 THEN acc
                 ELSE AnalysisResult(
                          acc.name,
                          Append(acc.values,
                                 PyFloat(end_log_values[1].timestamps[k] - start_timestamp)),
                          Append(acc.timestamps, start_timestamp)))

\* analyze_file_records for one analysis: (log_file_name, time_differences,
\* start_timestamps); a time difference is a float.
analyze_file_records(log, log_file_name, analysis) ==
    LET start_field == get_field(log, analysis.startEntry)
        end_field == get_field(log, analysis.endEntry)
    IN  IF \/ analysis.startEntry = <<>> \/ analysis.endEntry = <<>>
           \/ analysis.calculations = <<>>
           \/ start_field = None \/ end_field = None
        THEN AnalysisResult("", <<>>, <<>>)
        ELSE LET start_log_values == typed_range(start_field[1], 0, get_last_timestamp(log))
             IN  IF start_log_values = None
                 THEN AnalysisResult("", <<>>, <<>>)
                 ELSE time_differences_from(log, analysis, start_log_values[1], end_field[1], 1,
                                            AnalysisResult(log_file_name, <<>>, <<>>))

\* The loop of analyze_value_records over trigger_log_values from position
\* i; start_timestamp is the local of that name.
RECURSIVE captured_values_from(_, _, _, _, _, _)
captured_values_from(analysis, trigger_log_values, field, i, start_timestamp, acc) ==
    IF i > Len(trigger_log_values.timestamps)
    THEN acc
    ELSE IF ~py_eq(trigger_log_values.values[i], analysis.triggerValue)
    THEN captured_values_from(analysis, trigger_log_values, field, i + 1, start_timestamp, acc)
    ELSE LET end_timestamp == trigger_log_values.timestamps[i]
             log_values == typed_range(field, start_timestamp, end_timestamp)
         IN  IF log_values = None
             THEN captured_values_from(analysis, trigger_log_values, field, i + 1,
                                       start_timestamp, acc)
             ELSE captured_values_from(
                      analysis, trigger_log_values, field, i + 1, end_timestamp,
                      IF Len(log_values[1].values) > 0
                      THEN AnalysisResult(
                               acc.name,
                               Append(acc.values, log_values[1].values[Len(log_values[1].values)]),
                               Append(acc.timestamps, end_timestamp))
                      ELSE acc)

\* analyze_value_records for one analysis: (log_file_name, captured_values,
\* end_timestamps).
analyze_value_records(log, log_file_name, analysis) ==
    LET trigger_field == get_field(log, analysis.triggerEntry)
        field == get_field(log, analysis.entry)
    IN  IF \/ analysis.entry = <<>> \/ analysis.triggerEntry = <<>>
           \/ analysis.calculations = <<>> \/ analysis.triggerValue = PyNone
           \/ trigger_field = None \/ field = None
        THEN AnalysisResult("", <<>>, <<>>)
        ELSE LET trigger_log_values == typed_range(trigger_field[1], 0,
                                                   get_last_timestamp(log))
             IN  IF trigger_log_values = None
                 THEN AnalysisResult("", <<>>, <<>>)
                 ELSE captured_values_from(analysis, trigger_log_values[1], field[1], 1, 0,
                                           AnalysisResult(log_file_name, <<>>, <<>>))

(***************************************************************************)
(* Log.get_field_tree.  The tree it returns is the function from the path  *)
(* of a node, the sequence of the names of the children that lead to it,   *)
(* to the node's full_key (None or <<key>>).  Log.fields is a dict in      *)
(* insertion order and the model's fields has no order: the order matters  *)
(* only to two keys of one path, the later of which names the node.        *)
(***************************************************************************)
\* s.split("/")
RECURSIVE split_slash(_)
split_slash(s) ==
    LET i == find(s, <<"/">>, 0)
    IN  IF i = -1 THEN <<s>>
        ELSE <<PySlice(s, 0, i)>> \o split_slash(PySlice(s, i + 1, Len(s)))

\* The parts of a path that are not empty.
RECURSIVE path_parts(_)
path_parts(parts) ==
    IF parts = <<>> THEN <<>>
    ELSE IF Head(parts) = <<>> THEN path_parts(Tail(parts))
         ELSE <<Head(parts)>> \o path_parts(Tail(parts))

LogFieldTree == [full_key |-> None]

\* The body of the loop of get_field_tree for a key that passed the two
\* tests: the nodes of the path are created, the last one gets the key.
tree_insert(tree, prefix, key) ==
    LET stripped == PySlice(key, Len(prefix), Len(key))
        relative_key == IF startswith(stripped, <<"/">>)
                        THEN PySlice(stripped, 1, Len(stripped))
                        ELSE stripped
        path == path_parts(split_slash(relative_key))
        created == {SubSeq(path, 1, n) : n \in 1..Len(path)}
    IN  [p \in DOMAIN tree \cup created |->
            IF p = path THEN [full_key |-> <<relative_key>>]
            ELSE IF p \in DOMAIN tree THEN tree[p]
            ELSE LogFieldTree]

RECURSIVE tree_from(_, _, _, _, _)
tree_from(log, include_generated, prefix, keys, tree) ==
    IF keys = <<>>
    THEN tree
    ELSE IF \/ ~startswith(Head(keys), prefix)
            \/ ~include_generated /\ is_generated(log, Head(keys))
    THEN tree_from(log, include_generated, prefix, Tail(keys), tree)
    ELSE tree_from(log, include_generated, prefix, Tail(keys),
                   tree_insert(tree, prefix, Head(keys)))

get_field_tree(log, include_generated, prefix) ==
    tree_from(log, include_generated, prefix, get_field_keys(log), <<>>)

(***************************************************************************)
(* The state machine.  lastOp records the call that produced the state.    *)
(***************************************************************************)
\* The number of samples a field store holds.
RECURSIVE SumOver(_, _)
SumOver(f, S) ==
    IF S = {} THEN 0
    ELSE LET x == CHOOSE y \in S : TRUE
         IN  Len(f[x].data.timestamps) + SumOver(f, S \ {x})

TotalSamples(f) == SumOver(f, DOMAIN f)

\* lastOp.n is the number of samples the store held before the call.
Op(name, key, timestamp) ==
    [op |-> name, key |-> key, t |-> timestamp, n |-> TotalSamples(fields)]

Apply_log(log, op) ==
    /\ fields' = log.fields
    /\ generated_parents' = log.generated_parents
    /\ timestamp_range' = log.timestamp_range
    /\ timestamp_set_cache' = log.timestamp_set_cache
    /\ struct_decoder' = log.struct_decoder
    /\ queued_structs' = log.queued_structs
    /\ queued_struct_arrays' = log.queued_struct_arrays
    /\ lastOp' = [op |-> op.op, key |-> op.key, t |-> op.t, n |-> op.n, raised |-> log.raised]
    /\ history' = [inserted |-> history.inserted \/ TotalSamples(log.fields) > op.n,
                   cleared |-> history.cleared \/ op.op = "clear_before_time"]

Apply(log, op) ==
    /\ Apply_log(log, op)
    /\ UNCHANGED <<readerVars, runVars, lastDecode, lastResult>>

\* A Log and no file.
InitLog ==
    /\ fields = <<>>
    /\ generated_parents = {}
    /\ timestamp_range = None
    /\ timestamp_set_cache = <<>>
    /\ struct_decoder = StructDecoder
    /\ queued_structs = <<>>
    /\ queued_struct_arrays = <<>>
    /\ lastOp = [op |-> "init", key |-> <<>>, t |-> 0, n |-> 0, raised |-> None]
    /\ history = [inserted |-> FALSE, cleared |-> FALSE]
    /\ lastDecode = None
    /\ lastResult = None

InitNoReader ==
    /\ buf = <<>>
    /\ pos = 0
    /\ yielded = <<>>
    /\ stopped = FALSE

\* No run of process_log_file.
InitNoRun ==
    /\ mandatory_entries = {}
    /\ target_entry_names = {}
    /\ filter_enabled = FALSE
    /\ filter_fms_attached = FALSE
    /\ robot_mode = "both"
    /\ entries = <<>>
    /\ driver_station_enabled = None
    /\ driver_station_autonomous = None
    /\ driver_station_fms_attached = None
    /\ exited = None
    /\ lastRecord = None
    /\ processed = <<>>

Init == InitLog /\ InitNoReader /\ InitNoRun

RawValues == {PyBytes(<<1>>)}
BooleanValues == {PyBool(TRUE)}
NumberValues == {PyFloat(1), PyFloat(2)}
StringValues == {PyStr("x")}

\* The bound on the samples of one field.
HasRoom(key) ==
    key \in DOMAIN fields => Len(fields[key].data.timestamps) < MaxSamples

CreateBlankField(key, log_type) ==
    Apply(create_blank_field(Self, key, log_type), Op("create_blank_field", key, 0))

DeleteField(key) ==
    Apply(delete_field(Self, key), Op("delete_field", key, 0))

PutRaw(key, timestamp, value) ==
    /\ HasRoom(key)
    /\ Apply(put_raw(Self, key, timestamp, value), Op("put_raw", key, timestamp))

PutBoolean(key, timestamp, value) ==
    /\ HasRoom(key)
    /\ Apply(put_boolean(Self, key, timestamp, value), Op("put_boolean", key, timestamp))

PutNumber(key, timestamp, value) ==
    /\ HasRoom(key)
    /\ Apply(put_number(Self, key, timestamp, value), Op("put_number", key, timestamp))

PutString(key, timestamp, value) ==
    /\ HasRoom(key)
    /\ Apply(put_string(Self, key, timestamp, value), Op("put_string", key, timestamp))

ClearBeforeTime(timestamp) ==
    Apply(clear_before_time(Self, timestamp), Op("clear_before_time", <<>>, timestamp))

SetGeneratedParent(key) ==
    Apply(set_generated_parent(Self, key), Op("set_generated_parent", key, 0))

\* The bound on the samples of a struct field and of its children.
StructRoom(key) ==
    \A k \in DOMAIN fields :
        (k = key \/ startswith(k, key \o <<"/">>)) =>
            Len(fields[k].data.timestamps) < MaxSamples

\* The bound on the two queues of payloads waiting for their schema.
QueueRoom ==
    /\ Len(queued_structs) < MaxQueued
    /\ Len(queued_struct_arrays) < MaxQueued

AddSchema(name, schema) ==
    Apply([Self EXCEPT !.struct_decoder = add_schema(@, name, schema)],
          Op("add_schema", <<>>, 0))

PutStruct(key, timestamp, value, schema_type, is_array) ==
    /\ StructRoom(key)
    /\ Apply(put_struct(Self, key, timestamp, value, schema_type, is_array),
             Op("put_struct", key, timestamp))

GetTimestamps(keys, uuid) ==
    Apply(get_timestamps(Self, keys, uuid).log, Op("get_timestamps", <<>>, 0))

SetField(key, field) ==
    Apply(set_field(Self, key, field), Op("set_field", key, 0))

\* One field under every writer of the store.
Next ==
    \/ \E log_type \in LoggableType : CreateBlankField(KA, log_type)
    \/ DeleteField(KA)
    \/ \E t \in Times, v \in RawValues : PutRaw(KA, t, v)
    \/ \E t \in Times, v \in BooleanValues : PutBoolean(KA, t, v)
    \/ \E t \in Times, v \in NumberValues : PutNumber(KA, t, v)
    \/ \E t \in Times, v \in StringValues : PutString(KA, t, v)
    \/ \E t \in Times : ClearBeforeTime(t)
    \/ SetGeneratedParent(KA)

Spec == Init /\ [][Next]_vars

\* Two fields under the typed writers alone.
NextPut ==
    \/ \E key \in Keys : CreateBlankField(key, EMPTY)
    \/ \E key \in Keys, t \in Times : PutNumber(key, t, PyFloat(1))
    \/ \E key \in Keys, t \in Times : PutString(key, t, PyStr("x"))

SpecPut == Init /\ [][NextPut]_vars

\* Two fields that are created, written, registered as generated parents
\* and deleted.
NextDelete ==
    \/ \E key \in Keys : CreateBlankField(key, EMPTY)
    \/ \E key \in Keys, t \in Times : PutNumber(key, t, PyFloat(1))
    \/ \E key \in Keys : SetGeneratedParent(key)
    \/ \E key \in Keys : DeleteField(key)

SpecDelete == Init /\ [][NextDelete]_vars

\* The generated-parent registry over every short key.
KeyChars == {"/", "a"}

AllKeys == UNION {[1..n -> KeyChars] : n \in 1..MaxKeyLen}

NextParents ==
    \E key \in AllKeys :
        /\ Cardinality(generated_parents) < MaxParents
        /\ SetGeneratedParent(key)

SpecParents == Init /\ [][NextParents]_vars

\* A struct field, its children and a number field under the timestamp-set
\* cache: schema S is "int8 x", KS receives payloads of S and of S[].
KS == <<"s">>

SchemaS == <<Declaration("int8", <<"x">>, None, None, None)>>

CacheKeyLists == {<<KS \o <<"/", "0">>, KA>>, <<KS, KA>>}

Uuids == {None, <<"u">>}

\* A Number field holding one sample, as set_field receives it.
NumberFieldAt(timestamp) ==
    [LogField(NUMBER) EXCEPT !.data = LogValueSet(<<timestamp>>, <<PyFloat(1)>>)]

\* The instants of the calls: the first and the last.
CacheTimes == {0, MaxTime}

NextCache ==
    \/ AddSchema("S", SchemaS)
    \/ \E t \in CacheTimes, is_array \in {TRUE, FALSE} :
           QueueRoom /\ PutStruct(KS, t, <<1>>, "S", is_array)
    \/ \E t \in CacheTimes : PutNumber(KA, t, PyFloat(1))
    \/ \E keys \in CacheKeyLists, uuid \in Uuids : GetTimestamps(keys, uuid)
    \/ \E key \in {KA, KS} : DeleteField(key)
    \/ SetField(KA, NumberFieldAt(0))
    \/ ClearBeforeTime(MaxTime)

SpecCache == Init /\ [][NextCache]_vars

\* The record iterator over every short buffer: a file header followed by
\* any bytes, a file header that declares one byte of extra header followed
\* by any fewer bytes, and every truncation of the file header.  The byte 20
\* is the header byte of a record with a two-byte size and a two-byte
\* timestamp, 1 that of a record with a two-byte entry id.
BodyBytes == {0, 1, 20}

FileHeader(extraHeaderSize) ==
    <<87, 80, 73, 76, 79, 71, 0, 1, extraHeaderSize, 0, 0, 0>>

Bodies(longest) == UNION {[1..n -> BodyBytes] : n \in 0..longest}

Buffers ==
    {FileHeader(0) \o body : body \in Bodies(MaxBody)}
    \cup {FileHeader(1) \o body : body \in Bodies(MaxBody \div 2 + 1)}
    \cup {SubSeq(FileHeader(0), 1, n) : n \in 0..11}

InitReader ==
    /\ InitLog
    /\ InitNoRun
    /\ buf \in Buffers
    /\ pos = __iter__(buf).pos
    /\ yielded = <<>>
    /\ stopped = FALSE

\* One call of next() on the iterator.
IteratorNext ==
    LET result == __next__(DataLogIterator(buf, pos))
    IN  /\ IF IsRaised(result)
           THEN /\ stopped' = TRUE
                /\ UNCHANGED <<buf, pos, yielded>>
           ELSE /\ stopped' = FALSE
                /\ buf' = result.it.buf
                /\ pos' = result.it.pos
                /\ yielded' = Append(yielded, [record |-> result.record,
                                               start |-> pos,
                                               end |-> result.it.pos])
        /\ UNCHANGED <<logVars, runVars, lastDecode, lastResult>>

NextReader == IteratorNext

SpecReader == InitReader /\ [][NextReader]_vars

\* The for loop over the reader calls next() until it stops.
SpecReaderFair == SpecReader /\ WF_vars(NextReader)

(***************************************************************************)
(* SpecRun: one run of process_log_file over any stream of the records     *)
(* below, one pass of the loop per step.                                   *)
(***************************************************************************)
ord(c) == CHOOSE code \in 32..126 : chr(code) = c

encode_utf8(s) == [i \in 1..Len(s) |-> ord(s[i])]

to_bytes_4(n) == <<n % 256, (n \div 256) % 256, (n \div 65536) % 256, n \div 16777216>>

InnerString(s) == to_bytes_4(Len(s)) \o encode_utf8(s)

\* The start record of an entry, as DataLogWriter lays it out.
StartRecord(entry, name, type_) ==
    DataLogRecord(0, 0, <<kControlStart>> \o to_bytes_4(entry) \o InnerString(name)
                        \o InnerString(type_) \o InnerString(<<>>))

FinishRecord(entry) == DataLogRecord(0, 0, <<kControlFinish>> \o to_bytes_4(entry))

NAME_A == <<"/", "a">>
NAME_SCHEMA_S == <<"/", ".", "s", "c", "h", "e", "m", "a", "/">> \o STRUCT_PREFIX \o <<"S">>
T_structschema == <<"s", "t", "r", "u", "c", "t", "s", "c", "h", "e", "m", "a">>

\* The entry ids of the three entries of the streams.
EntryIds == [enabled |-> 1, a |-> 2, schema |-> 3]

ControlRecords ==
    {StartRecord(EntryIds.enabled, DriverStationEntry.Enabled, TypeStr.boolean),
     StartRecord(EntryIds.a, NAME_A, TypeStr.int64),
     StartRecord(EntryIds.schema, NAME_SCHEMA_S, T_structschema),
     FinishRecord(EntryIds.a)}

\* Payloads of one, two and eight bytes, and the text "int8 x" of a schema.
DataRecords ==
    {DataLogRecord(EntryIds.enabled, t * 1000000, data) :
        t \in {0, MaxTime}, data \in {<<0>>, <<1>>, <<1, 0>>}}
    \cup {DataLogRecord(EntryIds.a, t * 1000000, data) :
        t \in {0, MaxTime}, data \in {<<5, 0, 0, 0, 0, 0, 0, 0>>, <<5, 0>>}}
    \cup {DataLogRecord(EntryIds.schema, 0, encode_utf8(<<"i", "n", "t", "8", " ", "x">>))}

Records == ControlRecords \cup DataRecords

Params ==
    [mandatory_entries |-> mandatory_entries,
     target_entry_names |-> target_entry_names,
     filter_enabled |-> filter_enabled,
     filter_fms_attached |-> filter_fms_attached,
     robot_mode |-> robot_mode]

ThisRun == Run(Self, entries, driver_station_enabled, driver_station_autonomous,
               driver_station_fms_attached, exited)

MANDATORY_ENTRIES ==
    {DriverStationEntry.Enabled, DriverStationEntry.Autonomous,
     DriverStationEntry.FMSAttached}

InitRun ==
    /\ InitLog
    /\ InitNoReader
    /\ mandatory_entries = MANDATORY_ENTRIES
    /\ target_entry_names \in {MANDATORY_ENTRIES, MANDATORY_ENTRIES \cup {NAME_A}}
    /\ filter_enabled \in BOOLEAN
    /\ filter_fms_attached = FALSE
    /\ robot_mode = "both"
    /\ entries = <<>>
    /\ driver_station_enabled = None
    /\ driver_station_autonomous = None
    /\ driver_station_fms_attached = None
    /\ exited = None
    /\ lastRecord = None
    /\ processed = <<>>

\* The locals of the function after a pass of the loop; no field holds
\* more than MaxSamples samples.
ContinueWith(run, record, records) ==
    /\ \A key \in DOMAIN run.log.fields :
           Len(run.log.fields[key].data.timestamps) <= MaxSamples
    /\ Apply_log(run.log, Op("process_record", <<>>, record.timestamp \div 1000000))
    /\ entries' = run.entries
    /\ driver_station_enabled' = run.driver_station_enabled
    /\ driver_station_autonomous' = run.driver_station_autonomous
    /\ driver_station_fms_attached' = run.driver_station_fms_attached
    /\ exited' = run.exited
    /\ lastRecord' = <<record>>
    /\ processed' = records
    /\ UNCHANGED <<readerVars, paramVars, lastDecode, lastResult>>

Continue(run, record) == ContinueWith(run, record, processed)

\* One pass of the loop, while no exception has left the function.
ProcessRecord(record) ==
    /\ exited = None
    /\ Continue(process_record(Params, ThisRun, record), record)

NextRun == \E record \in Records : ProcessRecord(record)

SpecRun == InitRun /\ [][NextRun]_vars

(***************************************************************************)
(* SpecSchemas: the schemas of a dependency graph added in any order.      *)
(* A <- B <- C is a chain, D waits for E, and E names a schema Z that is   *)
(* never added.                                                            *)
(***************************************************************************)
SchemaGraph ==
    [A |-> <<Declaration("int8", <<"x">>, None, None, None)>>,
     B |-> <<Declaration("A", <<"a">>, None, None, None),
             Declaration("uint8", <<"y">>, None, None, None)>>,
     C |-> <<Declaration("B", <<"b">>, None, None, None),
             Declaration("A", <<"c">>, None, <<2>>, None)>>,
     D |-> <<Declaration("C", <<"c">>, None, None, None),
             Declaration("E", <<"e">>, None, None, None)>>,
     E |-> <<Declaration("int8", <<"v">>, None, None, None),
             Declaration("Z", <<"z">>, None, None, None)>>]

NextSchemas == \E name \in DOMAIN SchemaGraph : AddSchema(name, SchemaGraph[name])

SpecSchemas == Init /\ [][NextSchemas]_vars

(***************************************************************************)
(* SpecLayout: _compile_schema on every list of at most MaxDecls of the    *)
(* declarations below, named a, b, c, ... by position, added once, with   *)
(* the schema A of one int8 added before or after it.                      *)
(***************************************************************************)
MaxDecls == 3

FieldNames == <<"a", "b", "c", "d", "e">>

\* A declaration without its name: type, bitfield width, array length.
DeclKind(type_, bitfield_width, array_length) ==
    [type |-> type_, bitfield_width |-> bitfield_width, array_length |-> array_length]

DeclKinds ==
    {DeclKind("bool", <<1>>, None),     \* bool x:1
     DeclKind("uint8", <<3>>, None),    \* uint8 x:3
     DeclKind("uint8", <<6>>, None),    \* uint8 x:6
     DeclKind("int16", <<4>>, None),    \* int16 x:4
     DeclKind("int8", <<9>>, None),     \* int8 x:9, wider than its type
     DeclKind("uint8", None, None),     \* uint8 x
     DeclKind("int16", None, <<2>>),    \* int16 x[2]
     DeclKind("A", None, None),         \* A x
     DeclKind("bool", <<2>>, None),     \* bool x:2
     DeclKind("float", <<3>>, None),    \* float x:3
     DeclKind("char", <<3>>, None),     \* char x:3
     DeclKind("A", <<2>>, None),        \* A x:2
     DeclKind("Z", <<2>>, None)}        \* Z x:2, Z a name that is never added

DeclarationsOf(kinds) ==
    [i \in 1..Len(kinds) |->
        Declaration(kinds[i].type, <<FieldNames[i]>>, kinds[i].bitfield_width,
                    kinds[i].array_length, None)]

LayoutSchemas ==
    {DeclarationsOf(kinds) : kinds \in UNION {[1..n -> DeclKinds] : n \in 0..MaxDecls}}

NextLayout ==
    \/ AddSchema("A", SchemaGraph.A)
    \/ /\ \A i \in 1..Len(struct_decoder.schema_strings) :
              struct_decoder.schema_strings[i].name # "L"
       /\ \E schema \in LayoutSchemas : AddSchema("L", schema)

SpecLayout == Init /\ [][NextLayout]_vars

(***************************************************************************)
(* SpecDecode: decode on the payloads of one and two bytes, for schemas of *)
(* integer fields.                                                         *)
(***************************************************************************)
DecodeSchemas ==
    {DeclarationsOf(kinds) : kinds \in
        {<<DeclKind("int8", <<3>>, None), DeclKind("uint8", <<3>>, None)>>,
         <<DeclKind("int8", None, None), DeclKind("uint8", None, None)>>,
         <<DeclKind("uint8", <<6>>, None), DeclKind("int8", <<4>>, None)>>,
         <<DeclKind("bool", <<1>>, None), DeclKind("int16", <<4>>, None)>>,
         <<DeclKind("int16", None, None)>>}}

PayloadBytes == {0, 7, 12, 128, 255}

Payloads == UNION {[1..n -> PayloadBytes] : n \in 1..2}

\* StructDecoder.decode(name, value) on the decoder of the Log.
Decode(name, value) ==
    /\ lastDecode' = <<[name |-> name, value |-> value,
                     result |-> decode(struct_decoder, name, value)]>>
    /\ UNCHANGED <<logVars, readerVars, runVars, lastResult>>

NextDecode ==
    \/ /\ struct_decoder.schema_strings = <<>>
       /\ \E schema \in DecodeSchemas : AddSchema("L", schema)
    \/ \E value \in Payloads : Decode("L", value)

SpecDecode == Init /\ [][NextDecode]_vars

(***************************************************************************)
(* SpecStruct: put_struct at one key, for the schema A of one int8, a      *)
(* schema P with a nested A and a bool, and a schema V of an array of two  *)
(* uint8; the schemas are added in any order.                              *)
(***************************************************************************)
StructSchemas ==
    [A |-> SchemaGraph.A,
     P |-> <<Declaration("A", <<"a">>, None, None, None),
             Declaration("bool", <<"f">>, None, None, None)>>,
     V |-> <<Declaration("uint8", <<"v">>, None, <<2>>, None)>>]

StructPayloads == {<<1>>, <<1, 1>>}

NextStruct ==
    \/ \E name \in DOMAIN StructSchemas : AddSchema(name, StructSchemas[name])
    \/ \E t \in CacheTimes, value \in StructPayloads, schema_type \in DOMAIN StructSchemas,
          is_array \in BOOLEAN :
           PutStruct(KS, t, value, schema_type, is_array)

SpecStruct == Init /\ [][NextStruct]_vars

(***************************************************************************)
(* SpecJson: put_json at the key "/j" for texts that are an object, a      *)
(* list, a number and a truncated object.                                  *)
(***************************************************************************)
KJ == <<"/", "j">>

\* The texts of the calls of put_json, by what they are.
JsonTexts ==
    [example |->   \* {"a":1,"b":[true,false]}
      <<"{", "\"", "a", "\"", ":", "1", ",", "\"", "b", "\"", ":", "[", "t",
        "r", "u", "e", ",", "f", "a", "l", "s", "e", "]", "}">>,
     number |->   \* {"a":1}
      <<"{", "\"", "a", "\"", ":", "1", "}">>,
     string_null |->   \* {"a":"x","b":null}
      <<"{", "\"", "a", "\"", ":", "\"", "x", "\"", ",", "\"", "b", "\"",
        ":", "n", "u", "l", "l", "}">>,
     mixed_list |->   \* {"a":[1,"x"]}
      <<"{", "\"", "a", "\"", ":", "[", "1", ",", "\"", "x", "\"", "]", "}">>,
     nested |->   \* {"a":{"c":true}}
      <<"{", "\"", "a", "\"", ":", "{", "\"", "c", "\"", ":", "t", "r", "u",
        "e", "}", "}">>,
     empty_list |->   \* {"b":[]}
      <<"{", "\"", "b", "\"", ":", "[", "]", "}">>,
     top_list |->   \* [1,"x"]
      <<"[", "1", ",", "\"", "x", "\"", "]">>,
     top_number |->   \* 1
      <<"1">>,
     truncated |->   \* {"a":
      <<"{", "\"", "a", "\"", ":">>]

PutJson(key, timestamp, value) ==
    /\ StructRoom(key)
    /\ Apply(put_json(Self, key, timestamp, value), Op("put_json", key, timestamp))

NextJson ==
    \E t \in Times, name \in DOMAIN JsonTexts : PutJson(KJ, t, PyStr(JsonTexts[name]))

SpecJson == Init /\ [][NextJson]_vars

(***************************************************************************)
(* SpecAnalysis: two Number fields, "a" and "b", and the two analyses of   *)
(* src/analysis.py over them: the interval from a sample of "a" with the   *)
(* value 1 to a sample of "b" with the value 1, and the value of "b" when  *)
(* "a" has the value 1.                                                    *)
(***************************************************************************)
Calculations == <<"mean">>

TimeAnalyses ==
    {[startEntry |-> KA, startValue |-> PyInt(1), endEntry |-> KB, endValue |-> PyInt(1),
      calculations |-> Calculations]}

ValueAnalyses ==
    {[entry |-> KB, triggerEntry |-> KA, triggerValue |-> PyInt(1),
      calculations |-> Calculations]}

AnalyzeFileRecords(analysis) ==
    /\ lastResult' = <<[op |-> "analyze_file_records", analysis |-> analysis,
                        result |-> analyze_file_records(Self, "f", analysis)]>>
    /\ UNCHANGED <<logVars, readerVars, runVars, lastDecode>>

AnalyzeValueRecords(analysis) ==
    /\ lastResult' = <<[op |-> "analyze_value_records", analysis |-> analysis,
                        result |-> analyze_value_records(Self, "f", analysis)]>>
    /\ UNCHANGED <<logVars, readerVars, runVars, lastDecode>>

NextAnalysis ==
    \/ \E key \in Keys, t \in Times, v \in NumberValues : PutNumber(key, t, v)
    \/ \E analysis \in TimeAnalyses : AnalyzeFileRecords(analysis)
    \/ \E analysis \in ValueAnalyses : AnalyzeValueRecords(analysis)

SpecAnalysis == Init /\ [][NextAnalysis]_vars

(***************************************************************************)
(* SpecTree: the fields "foo", "foo/x", "foo/x/y" and "foobar", the        *)
(* generated parents "foo" and "foo/x", and get_field_tree for the         *)
(* prefixes "", "foo" and "foo/".                                          *)
(***************************************************************************)
TreeKeys ==
    [foo |-> <<"f", "o", "o">>,
     foo_x |-> <<"f", "o", "o", "/", "x">>,
     foo_x_y |-> <<"f", "o", "o", "/", "x", "/", "y">>,
     foobar |-> <<"f", "o", "o", "b", "a", "r">>]

TreePrefixes == {<<>>, TreeKeys.foo, TreeKeys.foo \o <<"/">>}

GetFieldTree(include_generated, prefix) ==
    /\ lastResult' = <<[op |-> "get_field_tree", include_generated |-> include_generated,
                        prefix |-> prefix,
                        result |-> get_field_tree(Self, include_generated, prefix)]>>
    /\ UNCHANGED <<logVars, readerVars, runVars, lastDecode>>

NextTree ==
    \/ \E name \in DOMAIN TreeKeys : CreateBlankField(TreeKeys[name], NUMBER)
    \/ \E key \in {TreeKeys.foo, TreeKeys.foo_x} : SetGeneratedParent(key)
    \/ \E include_generated \in BOOLEAN, prefix \in TreePrefixes :
           GetFieldTree(include_generated, prefix)

SpecTree == Init /\ [][NextTree]_vars

(***************************************************************************)
(* SpecGates: one run of process_log_file for every configuration of the   *)
(* three filters, over any stream of the start records of the three driver *)
(* station entries and of the target entry "/a", all of type boolean, and  *)
(* of their data records of one byte.                                      *)
(***************************************************************************)
\* The samples a run of SpecGates stores.
MaxGateSamples == 4

GateIds == [Enabled |-> 1, Autonomous |-> 2, FMSAttached |-> 3, a |-> 4]

RobotModes == {"both", "auto", "teleop"}

GateControlRecords ==
    {StartRecord(GateIds[name], DriverStationEntry[name], TypeStr.boolean) :
        name \in DOMAIN DriverStationEntry}
    \cup {StartRecord(GateIds.a, NAME_A, TypeStr.boolean)}

GateDataRecords ==
    {DataLogRecord(entry, 0, data) : entry \in 1..4, data \in {<<0>>, <<1>>}}

GateRecords == GateControlRecords \cup GateDataRecords

InitGates ==
    /\ InitLog
    /\ InitNoReader
    /\ mandatory_entries = MANDATORY_ENTRIES
    /\ target_entry_names = MANDATORY_ENTRIES \cup {NAME_A}
    /\ filter_enabled \in BOOLEAN
    /\ filter_fms_attached \in BOOLEAN
    /\ robot_mode \in RobotModes
    /\ entries = <<>>
    /\ driver_station_enabled = None
    /\ driver_station_autonomous = None
    /\ driver_station_fms_attached = None
    /\ exited = None
    /\ lastRecord = None
    /\ processed = <<>>

\* The streams of SpecGates start the four entries in the order of their
\* ids before the first data record, and store MaxGateSamples samples.
HeaderFirst(record) ==
    IF isStart(record)
    THEN getStartData(record).val.entry = Cardinality(DOMAIN entries) + 1
    ELSE /\ Cardinality(DOMAIN entries) = Cardinality(GateControlRecords)
         /\ TotalSamples(fields) < MaxGateSamples

NextGates == \E record \in GateRecords : HeaderFirst(record) /\ ProcessRecord(record)

SpecGates == InitGates /\ [][NextGates]_vars

(***************************************************************************)
(* SpecEntries: one run of process_log_file with no filter and the target  *)
(* names "/ab" and "/c", over every stream of up to MaxStream of the       *)
(* records below.  Entry 1 is started as "/ab" of type int64 or as "/c" of *)
(* type boolean, entry 2 as "/a", entry 3 as "/x".                         *)
(***************************************************************************)
MaxStream == 4

NAME_AB == <<"/", "a", "b">>
NAME_C == <<"/", "c">>
NAME_X == <<"/", "x">>

EntryControlRecords ==
    {StartRecord(1, NAME_AB, TypeStr.int64),
     StartRecord(1, NAME_C, TypeStr.boolean),
     StartRecord(2, NAME_A, TypeStr.boolean),
     StartRecord(3, NAME_X, TypeStr.boolean),
     FinishRecord(1)}

EntryDataRecords ==
    {DataLogRecord(1, 0, <<5, 0, 0, 0, 0, 0, 0, 0>>), DataLogRecord(1, 0, <<1>>),
     DataLogRecord(2, 0, <<1>>), DataLogRecord(3, 0, <<1>>)}

EntryRecords == EntryControlRecords \cup EntryDataRecords

InitEntries ==
    /\ InitLog
    /\ InitNoReader
    /\ mandatory_entries = MANDATORY_ENTRIES
    /\ target_entry_names = MANDATORY_ENTRIES \cup {NAME_AB, NAME_C}
    /\ filter_enabled = FALSE
    /\ filter_fms_attached = FALSE
    /\ robot_mode = "both"
    /\ entries = <<>>
    /\ driver_station_enabled = None
    /\ driver_station_autonomous = None
    /\ driver_station_fms_attached = None
    /\ exited = None
    /\ lastRecord = None
    /\ processed = <<>>

\* One pass of the loop, the record kept in processed.
ProcessKept(record) ==
    /\ exited = None
    /\ Len(processed) < MaxStream
    /\ ContinueWith(process_record(Params, ThisRun, record), record,
                    Append(processed, record))

NextEntries == \E record \in EntryRecords : ProcessKept(record)

SpecEntries == InitEntries /\ [][NextEntries]_vars

(***************************************************************************)
(* SpecExpander: calls of _put_unknown_struct on the key "/j" with the     *)
(* values below, with and without allow_root_write.                        *)
(***************************************************************************)
ExpanderValues ==
    [bools |-> PyList(<<PyBool(TRUE), PyBool(FALSE)>>),
     numbers |-> PyList(<<PyInt(1)>>),
     strings |-> PyList(<<PyStr(<<"x">>)>>),
     empty |-> PyList(<<>>),
     mixed |-> PyList(<<PyInt(1), PyStr(<<"x">>)>>),
     nested |-> PyList(<<PyList(<<PyBool(TRUE)>>)>>),
     number |-> PyInt(1),
     string |-> PyStr(<<"x">>)]

PutUnknownStruct(key, timestamp, value, allow_root_write) ==
    /\ StructRoom(key)
    /\ Apply(_put_unknown_struct(Self, key, timestamp, value, allow_root_write),
             Op(IF allow_root_write THEN "_put_unknown_struct(True)"
                ELSE "_put_unknown_struct(False)", key, timestamp))

NextExpander ==
    \E t \in Times, name \in DOMAIN ExpanderValues, allow_root_write \in BOOLEAN :
        PutUnknownStruct(KJ, t, ExpanderValues[name], allow_root_write)

SpecExpander == Init /\ [][NextExpander]_vars

(***************************************************************************)
(* Helpers of the properties.                                              *)
(***************************************************************************)
PutOps == {"put_raw", "put_boolean", "put_number", "put_string"}

PutTypeOf(op) ==
    CASE op = "put_raw" -> RAW
      [] op = "put_boolean" -> BOOLEAN_TYPE
      [] op = "put_number" -> NUMBER
      [] op = "put_string" -> STRING_TYPE

NonDecreasing(seq) == \A i \in 1..(Len(seq) - 1) : seq[i] <= seq[i + 1]

\* The samples of data at the positions in I, in stored order.
RECURSIVE SamplesAt(_, _, _)
SamplesAt(data, I, i) ==
    IF i > Len(data.timestamps)
    THEN LogValueSet(<<>>, <<>>)
    ELSE LET rest == SamplesAt(data, I, i + 1)
         IN  IF i \in I
             THEN LogValueSet(<<data.timestamps[i]>> \o rest.timestamps,
                              <<data.values[i]>> \o rest.values)
             ELSE rest

Positions(data) == 1..Len(data.timestamps)

SetMax(S) == CHOOSE x \in S : \A y \in S : y <= x
SetMin(S) == CHOOSE x \in S : \A y \in S : x <= y

AllTimestamps(f) == UNION {SeqRange(f[k].data.timestamps) : k \in DOMAIN f}

(***************************************************************************)
(* C1.  In every field the stored timestamps are non-decreasing, after any *)
(* sequence of put_* calls (back-dated ones included) interleaved with     *)
(* clear_before_time calls.                                                *)
(***************************************************************************)
C1_TimestampsNonDecreasing ==
    \A key \in DOMAIN fields : NonDecreasing(fields[key].data.timestamps)

\* A back-dated put has just placed its sample before a later one.
C1_Witness ==
    /\ lastOp.op \in PutOps
    /\ history.cleared
    /\ KA \in DOMAIN fields
    /\ Len(fields[KA].data.timestamps) = lastOp.n + 1
    /\ Len(fields[KA].data.timestamps) >= 2
    /\ fields[KA].data.timestamps[1] = lastOp.t
    /\ fields[KA].data.timestamps[1] < fields[KA].data.timestamps[2]

(***************************************************************************)
(* C2.  A put_<T> on a key whose field has another type is rejected: the   *)
(* field keeps its type, timestamps and values, its type_warning becomes   *)
(* true, and the timestamp_range of the Log is unchanged.                  *)
(***************************************************************************)
C2_TypeConflictRejected ==
    [][\A key \in DOMAIN fields :
          (/\ lastOp'.op \in PutOps
           /\ lastOp'.key = key
           /\ fields[key].type # PutTypeOf(lastOp'.op))
          => /\ fields' = [fields EXCEPT ![key].type_warning = TRUE]
             /\ timestamp_range' = timestamp_range]_vars

\* put_string has just been rejected by a Number field holding one sample.
C2_Witness ==
    /\ lastOp.op = "put_string"
    /\ lastOp.key = KA
    /\ KA \in DOMAIN fields
    /\ fields[KA].type = NUMBER
    /\ fields[KA].type_warning
    /\ fields[KA].data = LogValueSet(<<0>>, <<PyFloat(1)>>)
    /\ lastOp.t = 1
    /\ timestamp_range = <<0, 0>>

(***************************************************************************)
(* C3.  get_range(key, start, end) returns None for an absent key and, for *)
(* an existing key, exactly the samples with start < t <= end in stored    *)
(* order (left-open, right-closed).                                        *)
(***************************************************************************)
LeftOpenRange(field, start, end) ==
    SamplesAt(field.data,
              {i \in Positions(field.data) :
                  start < field.data.timestamps[i] /\ field.data.timestamps[i] <= end},
              1)

C3_GetRangeLeftOpen ==
    \A key \in Keys, start \in Times, end \in Times :
        get_range(Self, key, start, end) =
            IF key \in DOMAIN fields
            THEN LeftOpenRange(fields[key], start, end)
            ELSE PyNone

(***************************************************************************)
(* C4.  After clear_before_time(t) no field has a sample before t; of the  *)
(* samples a field had before t only the most recent survives, moved to t  *)
(* with its value; the samples at or after t are kept as they were, in     *)
(* order.                                                                  *)
(***************************************************************************)
ClearedField(old, t) ==
    LET before == {i \in Positions(old.data) : old.data.timestamps[i] < t}
        kept == SamplesAt(old.data, Positions(old.data) \ before, 1)
    IN  IF before = {}
        THEN kept
        ELSE LogValueSet(<<t>> \o kept.timestamps,
                         <<old.data.values[SetMax(before)]>> \o kept.values)

C4_ClearBeforeTime ==
    [][lastOp'.op = "clear_before_time" =>
          /\ DOMAIN fields' = DOMAIN fields
          /\ \A key \in DOMAIN fields :
                /\ \A i \in Positions(fields'[key].data) :
                      fields'[key].data.timestamps[i] >= lastOp'.t
                /\ fields'[key].data = ClearedField(fields[key], lastOp'.t)]_vars

\* Two samples lay before t: one was dropped, the later one moved to t.
C4_Witness ==
    /\ lastOp.op = "clear_before_time"
    /\ lastOp.n = 2
    /\ KA \in DOMAIN fields
    /\ fields[KA].type = NUMBER
    /\ fields[KA].data = LogValueSet(<<lastOp.t>>, <<PyFloat(2)>>)

(***************************************************************************)
(* C5.  is_generated(K) is true exactly when a strict '/'-boundary prefix  *)
(* of K (a prefix of K that is followed in K by '/') is a generated        *)
(* parent.                                                                 *)
(***************************************************************************)
\* The prefixes of key that end right before one of its '/' characters.
SlashPrefixes(key) ==
    {SubSeq(key, 1, i - 1) : i \in {j \in 1..Len(key) : key[j] = "/"}}

C5_GeneratedIffSlashPrefix ==
    \A key \in AllKeys :
        is_generated(Self, key) <=> (SlashPrefixes(key) \cap generated_parents # {})

\* C5 as amended: the prefix must be followed by '/' and by at least one
\* more character, so that a parent "foo" does not make "foo/" generated.
ChildPrefixes(key) ==
    {SubSeq(key, 1, i - 1) : i \in {j \in 1..(Len(key) - 1) : key[j] = "/"}}

C5_GeneratedIffChildPrefix ==
    \A key \in AllKeys :
        is_generated(Self, key) <=> (ChildPrefixes(key) \cap generated_parents # {})

\* With "a" a generated parent: "a/a" is generated, "aa", "a" and "a/" are not.
C5_Witness ==
    /\ <<"a">> \in generated_parents
    /\ Cardinality(generated_parents) = 1
    /\ is_generated(Self, <<"a", "/", "a">>)
    /\ ~is_generated(Self, <<"a", "a">>)
    /\ ~is_generated(Self, <<"a">>)
    /\ ~is_generated(Self, <<"a", "/">>)

C7_DefaultUntilInserted ==
    /\ ~history.inserted => get_timestamp_range(Self) = DEFAULT_TIMESTAMP_RANGE
    /\ history.inserted =>
          timestamp_range # None /\ get_timestamp_range(Self) = timestamp_range
    /\ (lastOp.op = "clear_before_time" /\ history.inserted) =>
          get_timestamp_range(Self)[1] >= lastOp.t

\* C7 as amended: the default is returned while no sample has been inserted
\* and clear_before_time has not been called; clear_before_time(t) on a Log
\* without a tracked range sets the range to (t, t).
C7_DefaultUntilInsertedOrCleared ==
    /\ (~history.inserted /\ ~history.cleared) =>
          get_timestamp_range(Self) = DEFAULT_TIMESTAMP_RANGE
    /\ history.inserted =>
          timestamp_range # None /\ get_timestamp_range(Self) = timestamp_range
    /\ lastOp.op = "clear_before_time" =>
          timestamp_range # None /\ get_timestamp_range(Self)[1] >= lastOp.t
    /\ (~history.inserted /\ history.cleared) =>
          timestamp_range # None /\ timestamp_range[1] = timestamp_range[2]

\* clear_before_time(t) has just moved the start of a range set by samples.
C7_Witness ==
    /\ lastOp.op = "clear_before_time"
    /\ history.inserted
    /\ lastOp.n > 0
    /\ KA \in DOMAIN fields
    /\ fields[KA].data.timestamps # <<>>
    /\ fields[KA].data.timestamps[1] = lastOp.t
    /\ get_timestamp_range(Self)[1] = lastOp.t
    /\ get_timestamp_range(Self)[2] > lastOp.t

(***************************************************************************)
(* C8.  For each of the seven value types T, get_<T>(key, start, end)      *)
(* returns None when the key is absent or the field's type is not T and    *)
(* the field's samples in the range when the type is T; it never raises.   *)
(***************************************************************************)
TypedGet(get_type, key, start, end) ==
    CASE get_type = RAW -> get_raw(Self, key, start, end)
      [] get_type = BOOLEAN_TYPE -> get_boolean(Self, key, start, end)
      [] get_type = NUMBER -> get_number(Self, key, start, end)
      [] get_type = STRING_TYPE -> get_string(Self, key, start, end)
      [] get_type = BOOLEAN_ARRAY -> get_boolean_array(Self, key, start, end)
      [] get_type = NUMBER_ARRAY -> get_number_array(Self, key, start, end)
      [] get_type = STRING_ARRAY -> get_string_array(Self, key, start, end)

C8_TypedGetters ==
    \A get_type \in LoggableType \ {EMPTY}, key \in Keys, start \in Times, end \in Times :
        TypedGet(get_type, key, start, end) =
            IF key \in DOMAIN fields /\ fields[key].type = get_type
            THEN LogField_get_range(fields[key], start, end)
            ELSE PyNone

(***************************************************************************)
(* C9.  After delete_field(key) the store has no field at key and key is   *)
(* not a generated parent; the other fields and the other generated        *)
(* parents are unchanged.                                                  *)
(***************************************************************************)
C9_DeleteForgetsParent ==
    lastOp.op = "delete_field" =>
        /\ lastOp.key \notin DOMAIN fields
        /\ ~is_generated_parent(Self, lastOp.key)

\* C9 as amended: when key has a field, delete_field(key) removes the field
\* and the generated-parent registration of key and nothing else; when key
\* has no field the call changes nothing, so a key registered as generated
\* parent without a field stays registered.
C9_DeleteExistingForgetsParent ==
    [][lastOp'.op = "delete_field" =>
          LET key == lastOp'.key
          IN  /\ key \notin DOMAIN fields'
              /\ key \in DOMAIN fields =>
                    /\ ~is_generated_parent([Self EXCEPT !.generated_parents = generated_parents'], key)
                    /\ generated_parents' = generated_parents \ {key}
                    /\ fields' = [k \in DOMAIN fields \ {key} |-> fields[k]]
              /\ key \notin DOMAIN fields =>
                    /\ generated_parents' = generated_parents
                    /\ fields' = fields]_vars

\* A field with a sample that was a generated parent has just been deleted;
\* the other field and its registration are still there.
C9_Witness ==
    /\ lastOp.op = "delete_field"
    /\ lastOp.key = KA
    /\ DOMAIN fields = {KB}
    /\ lastOp.n > Len(fields[KB].data.timestamps)
    /\ generated_parents = {KB}

(***************************************************************************)
(* C10.  In every reachable state, get_timestamps(keys, uuid) for two or   *)
(* more existing keys returns the ascending, duplicate-free union of the   *)
(* current sample timestamps of those fields, with or without a uuid: the  *)
(* cached answer equals the freshly computed one.                          *)
(***************************************************************************)
AscendingUnion(keys) ==
    SortedSeq(UNION {SeqRange(fields[keys[i]].data.timestamps) :
                        i \in {j \in 1..Len(keys) : keys[j] \in DOMAIN fields}})

C10_CachedEqualsFresh ==
    \A keys \in CacheKeyLists, uuid \in Uuids :
        Len(existing_keys(Self, keys)) >= 2 =>
            get_timestamps(Self, keys, uuid).output = AscendingUnion(keys)

(***************************************************************************)
(* C11.  Samples with equal timestamps are stored in put order: an         *)
(* accepted put places its sample after every stored sample whose          *)
(* timestamp is <= its own and before every later one, and leaves the      *)
(* other samples of the field as they were.                                *)
(***************************************************************************)
OldData(key) ==
    IF key \in DOMAIN fields THEN fields[key].data ELSE LogValueSet(<<>>, <<>>)

RemoveAt(seq, i) == SubSeq(seq, 1, i - 1) \o SubSeq(seq, i + 1, Len(seq))

C11_StableInsertion ==
    [][\A key \in DOMAIN fields' :
          (/\ lastOp'.op \in PutOps
           /\ lastOp'.key = key
           /\ Len(fields'[key].data.timestamps) = Len(OldData(key).timestamps) + 1)
          => \E i \in 1..Len(fields'[key].data.timestamps) :
                /\ fields'[key].data.timestamps[i] = lastOp'.t
                /\ RemoveAt(fields'[key].data.timestamps, i) = OldData(key).timestamps
                /\ RemoveAt(fields'[key].data.values, i) = OldData(key).values
                /\ \A j \in 1..(i - 1) : fields'[key].data.timestamps[j] <= lastOp'.t
                /\ \A j \in (i + 1)..Len(fields'[key].data.timestamps) :
                      fields'[key].data.timestamps[j] > lastOp'.t]_vars

\* Two numbers were put at the same instant, 2.0 first: they are stored in
\* that order.
C11_Witness ==
    /\ lastOp.op = "put_number"
    /\ lastOp.key = KA
    /\ lastOp.t = 1
    /\ lastOp.n = 1
    /\ KA \in DOMAIN fields
    /\ fields[KA].data = LogValueSet(<<1, 1>>, <<PyFloat(2), PyFloat(1)>>)

(***************************************************************************)
(* C12.  For every record the iterator yielded, with header byte H, the    *)
(* widths are entry_len = (H & 3) + 1, size_len = ((H >> 2) & 3) + 1 and   *)
(* timestamp_len = ((H >> 4) & 7) + 1; entry id, payload size and          *)
(* timestamp are the little-endian unsigned integers of those widths; the  *)
(* position advances by 1 + entry_len + size_len + timestamp_len +         *)
(* payload_size, so the records are contiguous from offset                 *)
(* 12 + extra_header_len.                                                  *)
(***************************************************************************)
\* The bytes buffer[from .. to - 1], positions counted from 0.
Bytes(buffer, from, to) == SubSeq(buffer, from + 1, to)

Framed(i) ==
    LET r == yielded[i]
        H == buf[r.start + 1]
        entry_len == (H % 4) + 1
        size_len == ((H \div 4) % 4) + 1
        timestamp_len == ((H \div 16) % 8) + 1
        entry_at == r.start + 1
        size_at == entry_at + entry_len
        timestamp_at == size_at + size_len
        payload_at == timestamp_at + timestamp_len
        payload_size == unsigned_le(Bytes(buf, size_at, timestamp_at))
    IN  /\ r.record.entry = unsigned_le(Bytes(buf, entry_at, size_at))
        /\ r.record.timestamp = unsigned_le(Bytes(buf, timestamp_at, payload_at))
        /\ Len(r.record.data) = payload_size
        /\ r.record.data = Bytes(buf, payload_at, payload_at + payload_size)
        /\ r.end = r.start + 1 + entry_len + size_len + timestamp_len + payload_size
        /\ r.start = IF i = 1
                     THEN 12 + unsigned_le(Bytes(buf, 8, 12))
                     ELSE yielded[i - 1].end

C12_RecordFraming ==
    /\ \A i \in 1..Len(yielded) : Framed(i)
    /\ yielded # <<>> => pos = yielded[Len(yielded)].end

\* Two records were yielded, the first with the two-byte entry id 257.
C12_Witness ==
    /\ Len(yielded) = 2
    /\ yielded[1].start = 12
    /\ buf[yielded[1].start + 1] = 1
    /\ yielded[1].record.entry = 257
    /\ yielded[2].start = 17

(***************************************************************************)
(* C13.  Iterating the record reader over any buffer terminates: it yields *)
(* finitely many complete records, each inside the buffer, and stops       *)
(* without raising when what remains is too short for a record header or   *)
(* for the declared payload.                                               *)
(***************************************************************************)
\* No complete record starts at offset at.
TooShort(at) ==
    \/ Len(buf) < at + 4
    \/ LET H == buf[at + 1]
           entry_len == (H % 4) + 1
           size_len == ((H \div 4) % 4) + 1
           timestamp_len == ((H \div 16) % 8) + 1
           headerLen == 1 + entry_len + size_len + timestamp_len
       IN  \/ Len(buf) < at + headerLen
           \/ Len(buf) < at + headerLen
                         + unsigned_le(Bytes(buf, at + 1 + entry_len,
                                             at + 1 + entry_len + size_len))

ReaderSafe ==
    /\ \A i \in 1..Len(yielded) :
          /\ yielded[i].start < yielded[i].end
          /\ yielded[i].end <= Len(buf)
          /\ ~TooShort(yielded[i].start)
    /\ Len(yielded) <= Len(buf)
    /\ stopped => TooShort(pos)

C13_TerminatesCleanly == []ReaderSafe /\ <>[]stopped

\* The iterator stopped after one record, in front of a truncated one.
C13_Witness ==
    /\ stopped
    /\ Len(yielded) = 1
    /\ pos + 4 <= Len(buf)

(***************************************************************************)
(* process_log_file                                                        *)
(***************************************************************************)
\* The getter that the routing applies to a record of the entry raises
\* TypeError: the payload has not the size of the declared type.
payload_malformed(entry, record) ==
    \/ entry.type = TypeStr.boolean /\ IsRaised(getBoolean(record))
    \/ entry.type \in {TypeStr.int, TypeStr.int64} /\ IsRaised(getInteger(record))
    \/ entry.type = TypeStr.float /\ IsRaised(getFloat(record))
    \/ entry.type = TypeStr.double /\ IsRaised(getDouble(record))

\* The loop pass of this step handles a data record of a started entry.
DataRecordStep(record) ==
    /\ exited = None
    /\ lastRecord' = <<record>>
    /\ ~isControl(record)
    /\ record.entry \in DOMAIN entries

\* C14: when a data record of a captured entry fails the size check of its
\* declared type, the pipeline skips that one record: the fields written so
\* far are unchanged and the later records of the file are still processed
\* (no exception leaves process_log_file).
C14_MalformedRecordSkipped ==
    [][\A record \in Records :
          (/\ DataRecordStep(record)
           /\ is_captured(Params, ThisRun, entries[record.entry])
           /\ payload_malformed(entries[record.entry], record))
          => (fields' = fields /\ exited' = None)]_vars

\* A malformed record of a captured entry has ended the run with TypeError
\* while samples were already stored.
C14_Aborted ==
    /\ exited = <<"TypeError">>
    /\ fields # <<>>
    /\ lastRecord[1].entry = EntryIds.enabled

\* C15: a data record of a started entry whose name contains ".schema"
\* registers the schema named by the text after "struct:" in the entry name,
\* the run continues, and the schema name is known to the compiler afterwards.
C15_SchemaRegistered ==
    [][\A record \in Records :
          (/\ DataRecordStep(record)
           /\ Contains(entries[record.entry].name, DOT_SCHEMA))
          => /\ exited' = None
             /\ \E i \in 1..Len(struct_decoder'.schema_strings) :
                    struct_decoder'.schema_strings[i].name =
                        JoinChars(split_1(entries[record.entry].name, STRUCT_PREFIX).val)]_vars

\* The record of a schema entry has ended the run with AttributeError.
C15_Aborted ==
    /\ exited = <<"AttributeError">>
    /\ lastRecord[1].entry = EntryIds.schema
    /\ struct_decoder.schema_strings = <<>>

(***************************************************************************)
(* StructDecoder                                                           *)
(***************************************************************************)
\* The type names of a schema that are no primitive type names.
References(schema) ==
    {schema[i].type : i \in 1..Len(schema)} \ VALID_TYPE_STRINGS

Registered(decoder) ==
    {decoder.schema_strings[i].name : i \in 1..Len(decoder.schema_strings)}

\* C16: after every add_schema call, a registered schema is compiled if and
\* only if every schema it references is compiled, whatever the order in
\* which the schemas were added.
C16_CompiledIffReferencesCompiled ==
    \A i \in 1..Len(struct_decoder.schema_strings) :
        LET entry == struct_decoder.schema_strings[i]
        IN  entry.name \in DOMAIN struct_decoder.schemas
                <=> References(entry.schema) \subseteq DOMAIN struct_decoder.schemas

\* The chain was added parent first and D waits: the last call compiled A,
\* B and C over three passes.
C16_Witness ==
    /\ Len(struct_decoder.schema_strings) = 4
    /\ struct_decoder.schema_strings[1].name = "D"
    /\ struct_decoder.schema_strings[2].name = "C"
    /\ struct_decoder.schema_strings[3].name = "B"
    /\ struct_decoder.schema_strings[4].name = "A"
    /\ DOMAIN struct_decoder.schemas = {"A", "B", "C"}

\* The rule of C17, field by field.  IsBitfield: a field declared with a
\* width.  StorageBits: the width T of the declaring type.  WidthOf: W.
IsBitfield(value_schema) == value_schema.bitfield_width # None

StorageBits(value_schema) == VALUE_TYPE_MAX_BITS(value_schema.type)

WidthOf(value_schema) == Min(value_schema.bitfield_width[1], StorageBits(value_schema))

\* The current storage unit after field i: None, or <<[width, offset]>>.
RECURSIVE UnitAfter(_, _)
StartsUnit(value_schemas, i) ==
    LET unit == UnitAfter(value_schemas, i - 1)
        this == value_schemas[i]
    IN  \/ unit = None
        \/ this.type # "bool" /\ unit[1].width # StorageBits(this)
        \/ unit[1].offset + WidthOf(this) > unit[1].width

UnitAfter(value_schemas, i) ==
    IF i = 0 \/ ~IsBitfield(value_schemas[i])
    THEN None
    ELSE IF StartsUnit(value_schemas, i)
    THEN <<[width |-> StorageBits(value_schemas[i]), offset |-> WidthOf(value_schemas[i])]>>
    ELSE LET unit == UnitAfter(value_schemas, i - 1)[1]
         IN  <<[width |-> unit.width, offset |-> unit.offset + WidthOf(value_schemas[i])]>>

\* The bits to the end of the current unit after field i.
Leftover(value_schemas, i) ==
    LET unit == UnitAfter(value_schemas, i)
    IN  IF unit = None THEN 0 ELSE unit[1].width - unit[1].offset

EndOf(value_schemas, i) == IF i = 0 THEN 0 ELSE value_schemas[i].bit_range[2]

ClaimedStart(value_schemas, i) ==
    IF IsBitfield(value_schemas[i]) /\ ~StartsUnit(value_schemas, i)
    THEN EndOf(value_schemas, i - 1)
    ELSE EndOf(value_schemas, i - 1) + Leftover(value_schemas, i - 1)

ClaimedSize(schemas, value_schema) ==
    LET count == IF value_schema.array_length = None THEN 1 ELSE value_schema.array_length[1]
    IN  IF IsBitfield(value_schema) THEN WidthOf(value_schema)
        ELSE IF value_schema.type \in VALID_TYPE_STRINGS
        THEN StorageBits(value_schema) * count
        ELSE schemas[value_schema.type].length * count

PackedAsClaimed(schemas, schema) ==
    LET value_schemas == schema.value_schemas
        n == Len(value_schemas)
    IN  /\ \A i \in 1..n :
               value_schemas[i].bit_range =
                   <<ClaimedStart(value_schemas, i),
                     ClaimedStart(value_schemas, i) + ClaimedSize(schemas, value_schemas[i])>>
        /\ schema.length = EndOf(value_schemas, n) + Leftover(value_schemas, n)

\* "bool a:1; bool b:1; uint8 c;"
ExampleSchema ==
    DeclarationsOf(<<DeclKind("bool", <<1>>, None), DeclKind("bool", <<1>>, None),
                     DeclKind("uint8", None, None)>>)

IsRegistered(name, schema) ==
    \E i \in 1..Len(struct_decoder.schema_strings) :
        struct_decoder.schema_strings[i] = [name |-> name, schema |-> schema]

ExampleCompiled ==
    /\ IsRegistered("L", ExampleSchema)
    /\ "L" \in DOMAIN struct_decoder.schemas

BitfieldTypes ==
    {"bool", "int8", "int16", "int32", "int64", "uint8", "uint16", "uint32", "uint64"}

IsInvalidBitfield(declaration) ==
    /\ declaration.bitfield_width # None
    /\ \/ declaration.type = "bool" /\ declaration.bitfield_width[1] # 1
       \/ declaration.type \notin BitfieldTypes

RECURSIVE WithoutInvalidBitfields(_)
WithoutInvalidBitfields(schema) ==
    IF schema = <<>> THEN <<>>
    ELSE IF IsInvalidBitfield(Head(schema))
    THEN WithoutInvalidBitfields(Tail(schema))
    ELSE <<Head(schema)>> \o WithoutInvalidBitfields(Tail(schema))

\* The schemas of the decoder other than name.
OtherSchemas(name) ==
    [n \in DOMAIN struct_decoder.schemas \ {name} |-> struct_decoder.schemas[n]]

\* The compiled form of a schema that is declared without its invalid
\* bitfields.
CompiledWithout(name, schema) ==
    _compile_schema([schema_strings |-> <<>>, schemas |-> OtherSchemas(name)], name,
                    WithoutInvalidBitfields(schema)).decoder.schemas[name]

\* The statement of C18 as written: a schema compiles as soon as the
\* declarations other than its invalid bitfields can be compiled, and its
\* compiled form is that of the schema without them.
C18_InvalidBitfieldDropped ==
    \A i \in 1..Len(struct_decoder.schema_strings) :
        LET entry == struct_decoder.schema_strings[i]
        IN  References(WithoutInvalidBitfields(entry.schema))
                    \subseteq DOMAIN struct_decoder.schemas
                => /\ entry.name \in DOMAIN struct_decoder.schemas
                   /\ struct_decoder.schemas[entry.name]
                          = CompiledWithout(entry.name, entry.schema)

\* C18: an invalid bitfield declaration (a bool of a width other than 1, or
\* a type outside bool, int8..int64, uint8..uint64) whose type is a primitive
\* or a compiled schema is dropped: the schema compiles, the declaration is
\* absent from its fields and occupies no bits, and the other declarations
\* are laid out as if it were not there.
C18_InvalidBitfieldDroppedWhenTypeKnown ==
    \A i \in 1..Len(struct_decoder.schema_strings) :
        LET entry == struct_decoder.schema_strings[i]
        IN  References(entry.schema) \subseteq DOMAIN struct_decoder.schemas
                => /\ entry.name \in DOMAIN struct_decoder.schemas
                   /\ struct_decoder.schemas[entry.name]
                          = CompiledWithout(entry.name, entry.schema)

\* uint8 a:3; A b:2; uint8 c:3 is compiled: the fields are a and c, in one
\* unit of eight bits.
C18_Witness ==
    /\ IsRegistered("L", DeclarationsOf(<<DeclKind("uint8", <<3>>, None),
                                          DeclKind("A", <<2>>, None),
                                          DeclKind("uint8", <<3>>, None)>>))
    /\ "L" \in DOMAIN struct_decoder.schemas
    /\ LET schema == struct_decoder.schemas["L"]
       IN  /\ Len(schema.value_schemas) = 2
           /\ schema.value_schemas[1].name = <<"a">>
           /\ schema.value_schemas[2].name = <<"c">>
           /\ schema.value_schemas[2].bit_range = <<3, 6>>
           /\ schema.length = 8

\* The bits of a field as decode slices them, lowest first.
FieldBits(value, bit_range) == PySlice(_to_bool_array(value), bit_range[1], bit_range[2])

RECURSIVE UnsignedOf(_)
UnsignedOf(bits) ==
    IF bits = <<>> THEN 0
    ELSE (IF Head(bits) THEN 1 ELSE 0) + 2 * UnsignedOf(Tail(bits))

\* The integer that a field of these bits encodes: binary for an unsigned
\* type, two's complement of the width of the field for a signed type.
EncodedInteger(bits, signed) ==
    IF signed /\ bits # <<>> /\ bits[Len(bits)]
    THEN UnsignedOf(bits) - Pow2(Len(bits))
    ELSE UnsignedOf(bits)

SignedTypes == {"int8", "int16", "int32", "int64"}
UnsignedTypes == {"uint8", "uint16", "uint32", "uint64"}

\* The last decode had a payload that covers the schema.
DecodedWhole ==
    /\ lastDecode # None
    /\ ~IsRaised(lastDecode[1].result)
    /\ 8 * Len(lastDecode[1].value) >= struct_decoder.schemas[lastDecode[1].name].length

\* C19: decoding honours the signedness of every integer field of a compiled
\* schema, bitfields included: the decoded value of a field is the integer
\* that its bits encode, so that decode(S, encode(S, v)) = v; a signed
\* bitfield of width W < T that holds -1 decodes to -1.
C19_DecodeHonoursSignedness ==
    DecodedWhole =>
        LET schema == struct_decoder.schemas[lastDecode[1].name]
        IN  \A i \in 1..Len(schema.value_schemas) :
                LET value_schema == schema.value_schemas[i]
                IN  value_schema.type \in SignedTypes \cup UnsignedTypes
                        => DictGet(lastDecode[1].result.data.v, value_schema.name)
                               = PyInt(EncodedInteger(
                                     FieldBits(lastDecode[1].value, value_schema.bit_range),
                                     value_schema.type \in SignedTypes))

\* int8 a:3 with the bits 111 was decoded to 7.
C19_NotSignExtended ==
    /\ DecodedWhole
    /\ struct_decoder.schemas["L"].value_schemas[1].type = "int8"
    /\ struct_decoder.schemas["L"].value_schemas[1].bit_range = <<0, 3>>
    /\ lastDecode[1].value = <<7>>
    /\ DictGet(lastDecode[1].result.data.v, <<"a">>) = PyInt(7)

(***************************************************************************)
(* Log.put_struct                                                          *)
(***************************************************************************)
\* The paths of the primitive leaves of a decoded value tree below path.
RECURSIVE Leaves(_, _)
Leaves(value, path) ==
    CASE value.py = "dict" ->
            UNION {Leaves(value.v[i][2], path \o <<"/">> \o value.v[i][1]) :
                      i \in 1..Len(value.v)}
      [] value.py = "list" ->
            UNION {Leaves(value.v[i], path \o <<"/">> \o str(i - 1)) : i \in 1..Len(value.v)}
      [] value.py = "NoneType" -> {}
      [] OTHER -> {path}

HasSampleAt(f, key, timestamp) ==
    /\ key \in DOMAIN f
    /\ InSeq(timestamp, f[key].data.timestamps)

\* What C20 asserts after put_struct(key, timestamp, value, schema_type,
\* is_array), decoded_data being the value tree of the payload.
StructStored(f, parents, key, timestamp, schema_type, is_array, decoded_data) ==
    /\ HasSampleAt(f, key, timestamp)
    /\ f[key].type = RAW
    /\ key \in parents
    /\ f[key].structured_type = <<schema_type \o (IF is_array THEN "[]" ELSE "")>>
    /\ \A leaf \in Leaves(decoded_data.data, key) : HasSampleAt(f, leaf, timestamp)
    /\ \A i \in 1..Len(decoded_data.schema_types) :
           LET child == key \o <<"/">> \o decoded_data.schema_types[i][1]
           IN  /\ child \in DOMAIN f
               /\ f[child].structured_type = <<decoded_data.schema_types[i][2]>>

\* C20: when put_struct(key, t, payload, T, is_array) is called on a new or
\* Raw key and T is compiled, then afterwards key holds the raw sample at t,
\* key is a generated parent of structured type T (or T[]), every primitive
\* leaf of the decoded tree has a sample at t at key/<sub_path>, and every
\* schema_types entry has a field of its structured type.
C20_StructStored ==
    [][\A t \in CacheTimes, value \in StructPayloads, schema_type \in DOMAIN StructSchemas,
          is_array \in BOOLEAN :
           (/\ PutStruct(KS, t, value, schema_type, is_array)
            /\ KS \in DOMAIN fields => fields[KS].type = RAW
            /\ schema_type \in DOMAIN struct_decoder.schemas)
           => StructStored(fields', generated_parents', KS, t, schema_type, is_array,
                           IF is_array
                           THEN decode_array(struct_decoder, schema_type, value, None)
                           ELSE decode(struct_decoder, schema_type, value))]_vars

\* put_struct for the compiled schema V has raised AttributeError: the
\* items of the array v have no samples.
C20_ArrayRaised ==
    /\ lastOp.op = "put_struct"
    /\ lastOp.raised = <<"AttributeError">>
    /\ "V" \in DOMAIN struct_decoder.schemas
    /\ KS \o <<"/", "v", "/", "0">> \notin DOMAIN fields

(***************************************************************************)
(* Log.put_struct before the schema is compiled                            *)
(***************************************************************************)
\* The fields below key.
ChildrenOf(f, key) == {k \in DOMAIN f : startswith(k, key \o <<"/">>)}

HasValueAt(f, key, timestamp, value) ==
    /\ key \in DOMAIN f
    /\ \E i \in 1..Len(f[key].data.timestamps) :
           /\ f[key].data.timestamps[i] = timestamp
           /\ f[key].data.values[i] = value

\* The queue put_struct appends to.
QueueOf(structs, arrays, is_array) == IF is_array THEN arrays ELSE structs

WasQueued(schema_type, is_array) ==
    \E i \in 1..Len(QueueOf(queued_structs, queued_struct_arrays, is_array)) :
        QueueOf(queued_structs, queued_struct_arrays, is_array)[i].schema_type = schema_type

\* The first half of C21: the call for a schema that is not compiled.
StoredRawAndQueued(t, value, schema_type, is_array) ==
    /\ lastOp'.raised = None
    /\ fields'[KS].type = RAW
    /\ HasValueAt(fields', KS, t, PyBytes(value))
    /\ ChildrenOf(fields', KS) = ChildrenOf(fields, KS)
    /\ \A k \in ChildrenOf(fields, KS) : fields'[k] = fields[k]
    /\ QueueOf(queued_structs', queued_struct_arrays', is_array) =
           Append(QueueOf(queued_structs, queued_struct_arrays, is_array),
                  QueuedStructure(KS, t, value, schema_type))
    /\ QueueOf(queued_structs', queued_struct_arrays', ~is_array) =
           QueueOf(queued_structs, queued_struct_arrays, ~is_array)

\* The second half of C21: the call after the schema has been added, for a
\* schema that has a payload waiting in the queue.
ExpandedNormally(t, value, schema_type, is_array) ==
    /\ lastOp'.raised = None
    /\ queued_structs' = queued_structs
    /\ queued_struct_arrays' = queued_struct_arrays
    /\ StructStored(fields', generated_parents', KS, t, schema_type, is_array,
                    IF is_array
                    THEN decode_array(struct_decoder, schema_type, value, None)
                    ELSE decode(struct_decoder, schema_type, value))

\* C21: put_struct(key, t, payload, T, is_array) for a schema T that is not
\* compiled does not raise, stores the payload as a Raw sample at key,
\* creates no field below key and appends (key, t, payload, T) to the retry
\* queue once; a later put_struct for T, after T has been added, is
\* expanded: it does not raise, queues nothing and stores the decoded tree.
C21_QueuedThenExpanded ==
    [][\A t \in CacheTimes, value \in StructPayloads, schema_type \in DOMAIN StructSchemas,
          is_array \in BOOLEAN :
           PutStruct(KS, t, value, schema_type, is_array)
           => IF schema_type \notin DOMAIN struct_decoder.schemas
              THEN StoredRawAndQueued(t, value, schema_type, is_array)
              ELSE WasQueued(schema_type, is_array)
                   => ExpandedNormally(t, value, schema_type, is_array)]_vars

\* The first half of C21 alone.
C21_Queued ==
    [][\A t \in CacheTimes, value \in StructPayloads, schema_type \in DOMAIN StructSchemas,
          is_array \in BOOLEAN :
           (/\ PutStruct(KS, t, value, schema_type, is_array)
            /\ schema_type \notin DOMAIN struct_decoder.schemas)
           => StoredRawAndQueued(t, value, schema_type, is_array)]_vars

\* The second half of C21 for the schemas without an array member.
C21_ExpandedScalar ==
    [][\A t \in CacheTimes, value \in StructPayloads, schema_type \in {"A", "P"},
          is_array \in BOOLEAN :
           (/\ PutStruct(KS, t, value, schema_type, is_array)
            /\ schema_type \in DOMAIN struct_decoder.schemas
            /\ WasQueued(schema_type, is_array))
           => ExpandedNormally(t, value, schema_type, is_array)]_vars

(***************************************************************************)
(* Log.put_json                                                            *)
(***************************************************************************)
\* The sample type C22 gives the value of a member: the set of the types
\* that match (an empty list matches the three array types; a value with
\* no sample of its own, as an object, matches none).
SampleTypes(value) ==
    CASE value.py = "bool" -> {BOOLEAN_TYPE}
      [] value.py \in {"int", "float"} -> {NUMBER}
      [] value.py = "str" -> {STRING_TYPE}
      [] value.py = "list" ->
            (IF AllItems(value.v, {"bool"}) THEN {BOOLEAN_ARRAY} ELSE {})
            \cup (IF AllItems(value.v, {"int", "float"}) THEN {NUMBER_ARRAY} ELSE {})
            \cup (IF AllItems(value.v, {"str"}) THEN {STRING_ARRAY} ELSE {})
      [] OTHER -> {}

\* The value of the sample: a number as a float.
SampleValue(value) ==
    CASE value.py \in {"int", "float"} -> float(value)
      [] value.py = "list" /\ value.v # <<>> /\ AllItems(value.v, {"int", "float"}) ->
            PyList([i \in 1..Len(value.v) |-> float(value.v[i])])
      [] OTHER -> value

\* What C22 asserts after put_json(key, timestamp, text) on a new key, the
\* text being the object of the members.
JsonStored(f, parents, raised, key, timestamp, text, members) ==
    /\ raised = None
    /\ key \in DOMAIN f
    /\ f[key].type = STRING_TYPE
    /\ HasValueAt(f, key, timestamp, PyStr(text))
    /\ f[key].structured_type = <<"JSON">>
    /\ key \in parents
    /\ ~is_generated([generated_parents |-> parents], key)
    /\ \A i \in 1..Len(members) :
           LET child == key \o <<"/">> \o members[i][1]
           IN  SampleTypes(members[i][2]) # {} =>
                   /\ child \in DOMAIN f
                   /\ f[child].type \in SampleTypes(members[i][2])
                   /\ HasValueAt(f, child, timestamp, SampleValue(members[i][2]))
                   /\ is_generated([generated_parents |-> parents], child)

\* C22: put_json(key, t, text) on a new key, text a JSON object, stores
\* text as a String sample at key, sets the structured type "JSON",
\* registers key as generated parent and writes each member at
\* "key/<member>" with the sample type of its value, so that every such
\* child is generated and key is not.
C22_JsonExpanded ==
    [][\A t \in Times, name \in DOMAIN JsonTexts :
           (/\ PutJson(KJ, t, PyStr(JsonTexts[name]))
            /\ KJ \notin DOMAIN fields
            /\ ~IsRaised(json_loads(JsonTexts[name]))
            /\ json_loads(JsonTexts[name]).val.py = "dict")
           => JsonStored(fields', generated_parents', lastOp'.raised, KJ, t, JsonTexts[name],
                         json_loads(JsonTexts[name]).val.v)]_vars

\* The same for the objects whose members are numbers, strings, null,
\* objects and lists of mixed items.
C22_JsonExpandedWithoutArrays ==
    [][\A t \in Times, name \in {"number", "string_null", "mixed_list", "nested"} :
           (/\ PutJson(KJ, t, PyStr(JsonTexts[name]))
            /\ KJ \notin DOMAIN fields)
           => JsonStored(fields', generated_parents', lastOp'.raised, KJ, t, JsonTexts[name],
                         json_loads(JsonTexts[name]).val.v)]_vars

\* put_json of the example text on a new key has raised AttributeError:
\* "/j/a" holds the number and "/j/b" does not exist.
C22_ExampleRaised ==
    /\ lastOp.op = "put_json"
    /\ lastOp.raised = <<"AttributeError">>
    /\ DOMAIN fields = {KJ, KJ \o <<"/", "a">>}
    /\ fields[KJ].data.values = <<PyStr(JsonTexts.example)>>
    /\ fields[KJ \o <<"/", "a">>].data.values = <<PyFloat(1)>>

(***************************************************************************)
(* analyze_file_records and analyze_value_records                          *)
(***************************************************************************)
\* The positions of the samples of a field whose value is value.
Matching(field, value) ==
    {i \in 1..Len(field.data.timestamps) : py_eq(field.data.values[i], value)}

\* The greatest timestamp of the store, 0 for a store without samples.
LastTimestamp(f) ==
    IF AllTimestamps(f) = {} THEN 0 ELSE SetMax(AllTimestamps(f))

\* The end of the window of the start sample i: the next timestamp of the
\* start field with the start value, or the last timestamp of the log.
WindowEnd(f, start_field, start_value, i) ==
    LET later == {start_field.data.timestamps[j] : j \in
                     {j \in Matching(start_field, start_value) :
                         start_field.data.timestamps[j] > start_field.data.timestamps[i]}}
    IN  IF later = {} THEN LastTimestamp(f) ELSE SetMin(later)

\* The end samples of the window of the start sample i; the window opens at
\* the start timestamp, exclusively or not.
EndsInWindow(f, analysis, i, exclusive) ==
    LET start_field == f[analysis.startEntry]
        end_field == f[analysis.endEntry]
        t_i == start_field.data.timestamps[i]
    IN  {k \in Matching(end_field, analysis.endValue) :
            /\ IF exclusive THEN end_field.data.timestamps[k] > t_i
               ELSE end_field.data.timestamps[k] >= t_i
            /\ end_field.data.timestamps[k] <=
                   WindowEnd(f, start_field, analysis.startValue, i)}

\* The durations and their start timestamps, for the start samples from
\* position i on.
RECURSIVE Durations(_, _, _, _)
Durations(f, analysis, i, exclusive) ==
    LET start_field == f[analysis.startEntry]
        end_field == f[analysis.endEntry]
        ends == EndsInWindow(f, analysis, i, exclusive)
        rest == Durations(f, analysis, i + 1, exclusive)
    IN  IF i > Len(start_field.data.timestamps)
        THEN [values |-> <<>>, timestamps |-> <<>>]
        ELSE IF i \notin Matching(start_field, analysis.startValue) \/ ends = {}
        THEN rest
        ELSE [values |-> <<PyFloat(end_field.data.timestamps[SetMin(ends)]
                                     - start_field.data.timestamps[i])>> \o rest.values,
              timestamps |-> <<start_field.data.timestamps[i]>> \o rest.timestamps]

IntervalsAre(exclusive) ==
    \A analysis \in TimeAnalyses :
        (/\ AnalyzeFileRecords(analysis)
         /\ analysis.startEntry \in DOMAIN fields
         /\ analysis.endEntry \in DOMAIN fields)
        => /\ lastResult'[1].result.values = Durations(fields, analysis, 1, exclusive).values
           /\ lastResult'[1].result.timestamps =
                  Durations(fields, analysis, 1, exclusive).timestamps

\* C23: the interval query yields, for each sample s_i of start_key whose
\* value equals start_value, at most one duration: t_end - t_i, t_end the
\* timestamp of the first end_key sample with end_value in the window that
\* opens at t_i exclusively (t_end > t_i) and closes at the next start_key
\* timestamp with start_value, or at the last timestamp of the log; a
\* window without such a sample yields nothing.
C23_IntervalQuery == [][IntervalsAre(TRUE)]_vars

\* The same with the window opening at t_i inclusively (t_end >= t_i).
C23_IntervalQueryClosed == [][IntervalsAre(FALSE)]_vars

\* The interval query has returned a duration of 0: the end sample has the
\* timestamp of the start sample.
C23_ZeroDuration ==
    /\ lastResult # None
    /\ lastResult[1].op = "analyze_file_records"
    /\ \E i \in 1..Len(lastResult[1].result.values) :
           lastResult[1].result.values[i] = PyFloat(0)


\* The samples of the entry field in the window that ends at the trigger
\* timestamp and opens at prev_trigger_ts, exclusively or not.
InTriggerWindow(field, prev_trigger_ts, trigger_ts, exclusive) ==
    {k \in 1..Len(field.data.timestamps) :
        /\ IF exclusive THEN field.data.timestamps[k] > prev_trigger_ts
           ELSE field.data.timestamps[k] >= prev_trigger_ts
        /\ field.data.timestamps[k] <= trigger_ts}

\* The values emitted and the timestamps of their triggers, for the trigger
\* samples from position i on.
RECURSIVE Emitted(_, _, _, _, _)
Emitted(f, analysis, i, prev_trigger_ts, exclusive) ==
    LET trigger_field == f[analysis.triggerEntry]
        field == f[analysis.entry]
        trigger_ts == trigger_field.data.timestamps[i]
        window == InTriggerWindow(field, prev_trigger_ts, trigger_ts, exclusive)
        rest == Emitted(f, analysis, i + 1, trigger_ts, exclusive)
    IN  IF i > Len(trigger_field.data.timestamps)
        THEN [values |-> <<>>, timestamps |-> <<>>]
        ELSE IF i \notin Matching(trigger_field, analysis.triggerValue)
        THEN Emitted(f, analysis, i + 1, prev_trigger_ts, exclusive)
        ELSE IF window = {}
        THEN rest
        ELSE [values |-> <<field.data.values[SetMax(window)]>> \o rest.values,
              timestamps |-> <<trigger_ts>> \o rest.timestamps]

SamplesAre(exclusive) ==
    \A analysis \in ValueAnalyses :
        (/\ AnalyzeValueRecords(analysis)
         /\ analysis.triggerEntry \in DOMAIN fields
         /\ analysis.entry \in DOMAIN fields)
        => /\ lastResult'[1].result.values = Emitted(fields, analysis, 1, 0, exclusive).values
           /\ lastResult'[1].result.timestamps =
                  Emitted(fields, analysis, 1, 0, exclusive).timestamps

\* C24: triggered sampling scans the trigger samples in timestamp order
\* and, at each trigger whose value equals trigger_value, emits the last
\* entry_key sample with a timestamp in (prev_trigger_ts, trigger_ts], if
\* there is one; prev_trigger_ts starts at 0.0 and becomes the timestamp of
\* every matching trigger, also when nothing was emitted.
C24_TriggeredSampling == [][SamplesAre(TRUE)]_vars

\* The same with the window [prev_trigger_ts, trigger_ts].
C24_TriggeredSamplingClosed == [][SamplesAre(FALSE)]_vars

\* Triggered sampling has emitted one sample of the entry twice: the entry
\* has one sample, at the timestamp of the first of two triggers.
C24_ReadAgain ==
    /\ lastResult # None
    /\ lastResult[1].op = "analyze_value_records"
    /\ Len(lastResult[1].result.values) = 2
    /\ KB \in DOMAIN fields
    /\ Len(fields[KB].data.timestamps) = 1
    /\ fields[KB].data.timestamps[1] = lastResult[1].result.timestamps[1]
    /\ fields[KB].data.timestamps[1] > 0

(***************************************************************************)
(* Log.get_field_tree                                                      *)
(***************************************************************************)
\* key lies under prefix at a '/' boundary.
UnderPrefix(key, prefix) ==
    \/ prefix = <<>>
    \/ startswith(key, prefix \o <<"/">>)
    \/ endswith(prefix, <<"/">>) /\ startswith(key, prefix)

\* The key relative to prefix, for a key under prefix.
RelativeKey(key, prefix) ==
    LET stripped == SubSeq(key, Len(prefix) + 1, Len(key))
    IN  IF stripped # <<>> /\ Head(stripped) = "/" THEN Tail(stripped) ELSE stripped

\* The keys C25 lets into the tree.
Listed(f, parents, include_generated, prefix) ==
    {key \in DOMAIN f :
        /\ UnderPrefix(key, prefix)
        /\ RelativeKey(key, prefix) # <<>>
        /\ include_generated \/ ~is_generated([generated_parents |-> parents], key)}

PathOf(relative_key) == path_parts(split_slash(relative_key))

\* What C25 asserts of the tree get_field_tree(prefix, include_generated)
\* returns: its terminal nodes are the listed keys, each at the path of its
\* relative key and carrying it, and every node lies on such a path.
TreeAsClaimed(tree, f, parents, include_generated, prefix) ==
    LET listed == Listed(f, parents, include_generated, prefix)
    IN  /\ \A key \in listed :
               /\ PathOf(RelativeKey(key, prefix)) \in DOMAIN tree
               /\ tree[PathOf(RelativeKey(key, prefix))].full_key =
                      <<RelativeKey(key, prefix)>>
        /\ \A p \in DOMAIN tree :
               /\ tree[p].full_key # None =>
                      \E key \in listed : /\ PathOf(RelativeKey(key, prefix)) = p
                                          /\ tree[p].full_key = <<RelativeKey(key, prefix)>>
               /\ \E key \in listed : startswith(PathOf(RelativeKey(key, prefix)), p)

\* C25: get_field_tree(prefix, include_generated) contains a key only if
\* the key lies under prefix at a '/' boundary ("foo/x" under "foo", not
\* "foobar"); each terminal node carries the key relative to prefix, and
\* the keys for which is_generated holds are omitted when include_generated
\* is false.
C25_FieldTree ==
    [][\A include_generated \in BOOLEAN, prefix \in TreePrefixes :
           GetFieldTree(include_generated, prefix)
           => TreeAsClaimed(lastResult'[1].result, fields, generated_parents,
                            include_generated, prefix)]_vars

\* The same for the prefixes that are empty or end with '/'.
C25_FieldTreeSlashPrefix ==
    [][\A include_generated \in BOOLEAN, prefix \in {<<>>, TreeKeys.foo \o <<"/">>} :
           GetFieldTree(include_generated, prefix)
           => TreeAsClaimed(lastResult'[1].result, fields, generated_parents,
                            include_generated, prefix)]_vars

\* get_field_tree with the prefix "foo" has returned a tree with the node
\* "bar", of the key "foobar".
C25_FoobarListed ==
    /\ lastResult # None
    /\ lastResult[1].op = "get_field_tree"
    /\ lastResult[1].prefix = TreeKeys.foo
    /\ <<<<"b", "a", "r">>>> \in DOMAIN lastResult[1].result
    /\ lastResult[1].result[<<<<"b", "a", "r">>>>].full_key = <<<<"b", "a", "r">>>>

(***************************************************************************)
(* process_log_file: the mandatory entries and the gates                   *)
(***************************************************************************)
\* The loop pass of this step handles the data record record of the
\* started entry of the name name_ and the type boolean; the payload has
\* the size of a boolean.
BooleanRecordStep(record, name_) ==
    /\ exited = None
    /\ lastRecord' = <<record>>
    /\ record.entry \in DOMAIN entries
    /\ entries[record.entry].name = name_
    /\ entries[record.entry].type = TypeStr.boolean
    /\ ~IsRaised(getBoolean(record))

\* The store after the step holds one sample more than before, and the field
\* of the entry holds the value of the record at the time of the record.
RecordWritten(record, name_) ==
    /\ exited' = None
    /\ TotalSamples(fields') = TotalSamples(fields) + 1
    /\ name_ \in DOMAIN fields'
    /\ fields'[name_].type = BOOLEAN_TYPE
    /\ HasValueAt(fields', name_, record.timestamp \div 1000000, getBoolean(record).val)

\* The gates of the configuration are closed for the driver station values
\* seen so far.
GatesClosed ==
    ~should_capture_record(Params, driver_station_enabled, driver_station_autonomous,
                           driver_station_fms_attached)

\* C26: during ingestion every well-formed data record of a started entry
\* named /DriverStation/Enabled, /DriverStation/Autonomous or
\* /DriverStation/FMSAttached is written to the field store, for every
\* configuration of the three filters and every driver station state at
\* the time of the record.
C26_MandatoryWritten ==
    [][\A record \in GateDataRecords, name \in MANDATORY_ENTRIES :
           BooleanRecordStep(record, name) => RecordWritten(record, name)]_vars

\* A record of /DriverStation/Autonomous has been written while the enabled
\* filter was on and the last /DriverStation/Enabled was false.
C26_WrittenWhenGated ==
    /\ filter_enabled
    /\ driver_station_enabled = <<PyBool(FALSE)>>
    /\ lastRecord # None
    /\ lastRecord[1].entry = GateIds.Autonomous
    /\ HasValueAt(fields, DriverStationEntry.Autonomous, 0, PyBool(TRUE))
    /\ GatesClosed


\* What C28 names the gates: a driver station value that has not been seen
\* passes its gate.
GatesPass ==
    /\ filter_enabled => driver_station_enabled # <<PyBool(FALSE)>>
    /\ filter_fms_attached => driver_station_fms_attached # <<PyBool(FALSE)>>
    /\ robot_mode = "auto" => driver_station_autonomous # <<PyBool(FALSE)>>
    /\ robot_mode = "teleop" => driver_station_autonomous # <<PyBool(TRUE)>>

\* C28: during ingestion a data record of a non-mandatory target entry is
\* written to the store iff the most recently seen driver station values
\* pass the configured gates: with enabled the latest
\* /DriverStation/Enabled is not false, with fmsAttached the latest
\* /DriverStation/FMSAttached is not false, with robotMode "auto" the latest
\* /DriverStation/Autonomous is not false and with "teleop" it is not true;
\* a gate whose value has not been seen yet passes.
C28_WrittenIffGatesPass ==
    [][\A record \in GateDataRecords :
           BooleanRecordStep(record, NAME_A)
           => IF GatesPass
              THEN RecordWritten(record, NAME_A)
              ELSE fields' = fields /\ exited' = None]_vars

\* A record of "/a" has been written in teleop mode after
\* /DriverStation/Autonomous went from true to false, with the enabled
\* filter on and no /DriverStation/Enabled seen.
C28_WrittenAfterGateOpened ==
    /\ robot_mode = "teleop"
    /\ filter_enabled
    /\ driver_station_enabled = None
    /\ DriverStationEntry.Autonomous \in DOMAIN fields
    /\ fields[DriverStationEntry.Autonomous].data.values = <<PyBool(TRUE), PyBool(FALSE)>>
    /\ lastRecord # None
    /\ lastRecord[1].entry = GateIds.a
    /\ NAME_A \in DOMAIN fields

\* A record of "/a" has been left out: the store holds no field "/a" after
\* the loop pass of the record.
C28_LeftOutWhenGated ==
    /\ lastRecord # None
    /\ lastRecord[1].entry = GateIds.a
    /\ NAME_A \notin DOMAIN fields
    /\ GatesClosed

(***************************************************************************)
(* process_log_file: the entries map and the capture test                  *)
(***************************************************************************)
\* The positions of records that hold a Start record of the entry id.
StartsOf(records, id) ==
    {i \in 1..Len(records) :
        /\ isStart(records[i])
        /\ ~IsRaised(getStartData(records[i]))
        /\ getStartData(records[i]).val.entry = id}

\* The positions of records that hold a Finish record of the entry id.
FinishesOf(records, id) ==
    {i \in 1..Len(records) :
        /\ isFinish(records[i])
        /\ getFinishEntry(records[i]).val = id}

\* The data of the last Start record of the entry id in records when no
\* Finish record of the id follows it, else None: the entry is started.
CurrentStart(records, id) ==
    LET live == {i \in StartsOf(records, id) :
                    \A j \in StartsOf(records, id) \cup FinishesOf(records, id) :
                        j > i => j \in StartsOf(records, id)}
    IN  IF live = {} THEN None
        ELSE <<getStartData(records[CHOOSE i \in live : \A j \in live : j <= i]).val>>

\* The keys whose field the step has created or changed.
ChangedKeys == {key \in DOMAIN fields' : key \notin DOMAIN fields \/ fields'[key] # fields[key]}

\* C29: during ingestion a data record is written to the store only if its
\* entry id is currently started, that is a Start record for the id was
\* seen earlier in the stream with no Finish record for it since; data
\* records before the Start or after the Finish are ignored, and after a
\* second Start for the same id the later Start's name and type are the
\* ones used for routing.
C29_WrittenOnlyIfStarted ==
    [][\A record \in EntryDataRecords :
           (exited = None /\ lastRecord' = <<record>>)
           => LET started == CurrentStart(processed, record.entry)
              IN  IF started = None
                  THEN fields' = fields /\ exited' = None
                  ELSE \A key \in ChangedKeys :
                           /\ key = started[1].name
                           /\ fields'[key].type = IF started[1].type = TypeStr.boolean
                                                  THEN BOOLEAN_TYPE ELSE NUMBER
                           /\ HasValueAt(fields', key, 0,
                                         IF started[1].type = TypeStr.boolean
                                         THEN getBoolean(record).val
                                         ELSE getInteger(record).val)]_vars

\* Entry 1 was started as "/ab" of type int64 and again as "/c" of type
\* boolean; its record of one byte is stored as a boolean of "/c".
C29_SecondStartRouted ==
    /\ processed = <<StartRecord(1, NAME_AB, TypeStr.int64),
                     StartRecord(1, NAME_C, TypeStr.boolean),
                     DataLogRecord(1, 0, <<1>>)>>
    /\ DOMAIN fields = {NAME_C}
    /\ fields[NAME_C].type = BOOLEAN_TYPE
    /\ HasValueAt(fields, NAME_C, 0, PyBool(TRUE))

\* A record of entry 1 after its Finish record has been ignored.
C29_IgnoredAfterFinish ==
    /\ processed = <<StartRecord(1, NAME_C, TypeStr.boolean), DataLogRecord(1, 0, <<1>>),
                     FinishRecord(1), DataLogRecord(1, 0, <<1>>)>>
    /\ TotalSamples(fields) = 1
    /\ exited = None


\* C30: after ingesting any record stream, every top-level key written to
\* the field store by the ingester (a key that is not a generated child) is
\* exactly the name of a mandatory entry or of an entry named in the
\* analysis configuration; entries with any other name, including names
\* that are proper substrings of a target name, are never stored.
C30_OnlyTargetKeys ==
    \A key \in DOMAIN fields :
        ~is_generated(Self, key) => key \in mandatory_entries \cup target_entry_names

\* What the capture test gives: every key of the store is a part of the
\* name of a mandatory entry or of an entry of the configuration.
C30_KeysArePartsOfTargets ==
    \A key \in DOMAIN fields :
        \E name \in mandatory_entries \cup target_entry_names : Contains(name, key)

\* The record of the entry "/a" is stored; the configuration names "/ab".
C30_SubstringStored ==
    /\ NAME_A \in DOMAIN fields
    /\ NAME_A \notin target_entry_names
    /\ HasValueAt(fields, NAME_A, 0, PyBool(TRUE))

(***************************************************************************)
(* Log._put_unknown_struct                                                 *)
(***************************************************************************)
\* The elements of a list are homogeneous: all bool, all numbers or all
\* strings.
Homogeneous(value) ==
    \/ AllItems(value.v, {"bool"})
    \/ AllItems(value.v, {"int", "float"})
    \/ AllItems(value.v, {"str"})

\* The sample of the value is at key of f at timestamp, with the sample type
\* of the value.
SampleStored(f, key, timestamp, value) ==
    /\ key \in DOMAIN f
    /\ f[key].type \in SampleTypes(value)
    /\ HasValueAt(f, key, timestamp, SampleValue(value))

\* f holds no field at key of another type than the sample type of value.
NoConflict(f, key, value) == key \in DOMAIN f => f[key].type \in SampleTypes(value)

\* The item i (from 0) of a list written at key has been expanded at
\* "key/i" with allow_root_write = true; the items of the lists of this
\* model are primitives and homogeneous lists.
ItemExpanded(before, after, key, timestamp, item, i) ==
    LET child == key \o <<"/">> \o str(i)
    IN  (item.py = "list" \/ NoConflict(before, child, item))
        => SampleStored(after, child, timestamp, item)

\* A list written as its length and its items.
ListExpanded(before, after, key, timestamp, value) ==
    LET length == key \o <<"/", "l", "e", "n", "g", "t", "h">>
    IN  /\ NoConflict(before, length, PyInt(0))
           => /\ length \in DOMAIN after
              /\ after[length].type = NUMBER
              /\ HasValueAt(after, length, timestamp, PyInt(Len(value.v)))
        /\ \A i \in 1..Len(value.v) :
               ItemExpanded(before, after, key, timestamp, value.v[i], i - 1)

\* What C27 asserts of the call _put_unknown_struct(key, timestamp, value,
\* allow_root_write) that leads from the store before to the store after.
ExpandedAsClaimed(before, after, raised, key, timestamp, value, allow_root_write) ==
    /\ raised = None
    /\ (value.py = "list" /\ allow_root_write /\ Homogeneous(value))
       => SampleStored(after, key, timestamp, value)
    /\ (value.py = "list" /\ ~Homogeneous(value))
       => ListExpanded(before, after, key, timestamp, value)
    /\ (value.py \in {"bool", "int", "float", "str"} /\ ~allow_root_write)
       => after = before

ExpanderStep(names) ==
    \A t \in Times, name \in names, allow_root_write \in BOOLEAN :
        PutUnknownStruct(KJ, t, ExpanderValues[name], allow_root_write)
        => ExpandedAsClaimed(fields, fields', lastOp'.raised, KJ, t, ExpanderValues[name],
                             allow_root_write)

\* C27: the structural expander writes a list reached with allow_root_write
\* = true as one array sample of the matching type when its elements are
\* homogeneous (all bool: BooleanArray, all numbers: NumberArray, all
\* strings: StringArray), for every such list including the empty list and
\* for every earlier history of writes to that key by the expander; a
\* heterogeneous or nested list instead writes "key/length" = the number
\* of elements and recurses into "key/i" for each index i; a primitive at
\* the root with allow_root_write = false writes nothing.
C27_Expander == [][ExpanderStep(DOMAIN ExpanderValues)]_vars

\* The same for the list of a number and a string and for the primitives.
C27_ExpanderOfPrimitives == [][ExpanderStep({"mixed", "number", "string"})]_vars

\* The list [True, False] reached with allow_root_write = true has raised
\* AttributeError and the store holds no field.
C27_ArrayRaised ==
    /\ lastOp.op = "_put_unknown_struct(True)"
    /\ lastOp.raised = <<"AttributeError">>
    /\ fields = <<>>

====
